---- MODULE Spec2Model ----
(***************************************************************************)
(* Pricing-and-availability core of the hotel reservation system           *)
(* (src/routes.py, src/models.py): the reservation handlers, the           *)
(* availability helper, room-type pricing and the exchange-rate ledger.    *)
(*                                                                         *)
(* Money is held in hundredths (cents), as the Numeric(10, 2) columns do.  *)
(* Calendar dates are day numbers 1..MaxDia.                               *)
(***************************************************************************)
EXTENDS Integers, FiniteSets, Sequences, TLC

VARIABLES
    tipos,          \* table tipos_habitaciones: id -> prices
    tasas,          \* table tasas: set of rate records
    nextTasaId,     \* autoincrement of tasas.id
    reservaciones,  \* table reservaciones: id -> row
    nextResId,      \* autoincrement of reservaciones.id
    ultimaOp,       \* the last request handled and the response it got
    consulta,       \* a direct call of _habitacion_disponible: arguments and result
    peticiones,     \* requests in flight, one per concurrent worker
    planes,         \* table planes_turisticos: id -> prices and active flag
    productos,      \* table productos_restaurante: id -> prices and active flag
    ventas,         \* table ventas with its ventas_detalle rows: id -> sale
    nextVentaId,    \* autoincrement of ventas.id
    pedido          \* the last sale form posted and what became of it

\* The tourism and restaurant catalogue and the sales
ventasVars == <<planes, productos, ventas, nextVentaId, pedido>>

vars == <<tipos, tasas, nextTasaId, reservaciones, nextResId, ultimaOp, consulta, peticiones,
          planes, productos, ventas, nextVentaId, pedido>>

-----------------------------------------------------------------------------
(* Bounds of the model *)

\* Calendar days are 1..MaxDia
MaxDia == 3

Dias == 1..MaxDia

\* The ids the autoincrement of reservaciones hands out before the model stops
\* inserting (deleted ids are not reused)
ReservacionIds == {1, 2}

\* Ids the rate ledger hands out
TasaIds == {1, 2, 3}

\* A sale form carries at most MaxItems values in each of its item lists
MaxItems == 2

\* Lines a sale takes through /ventas-detalle/nuevo
MaxLineas == 2

\* Rows each catalogue table holds at most
MaxCatalogo == 3

\* Ids the autoincrement of ventas hands out before the model stops inserting
VentaIds == {1}

-----------------------------------------------------------------------------
(* Values *)

\* Python's None for a date, and for an id
SinFecha == 0
SinId == 0

\* A request field holding a date: an ISO string of day d, a string that is
\* no calendar date, or a missing field (None).
ValorIso(d) == [t |-> "iso", d |-> d]
ValorTexto == [t |-> "txt", d |-> 0]
ValorNulo == [t |-> "null", d |-> 0]

\* Text of a form field that int() reads as n, and one that int() rejects
Entero(n) == [t |-> "int", n |-> n]
NoEntero == [t |-> "txt", n |-> 0]

ValoresFecha == {ValorIso(d) : d \in Dias} \cup {ValorTexto, ValorNulo}

Estados == {"confirmada", "check-in", "check-out", "cancelada"}

\* table habitaciones: room id -> its row (rooms 1 and 2 exist, of types 1 and 2)
habitaciones == [h \in {1, 2} |-> [tipo_habitacion_id |-> h]]

TipoIds == {1, 2}

\* Decimal product of two 2-decimal values, stored in a Numeric(10, 2) column:
\* the 4-decimal product is rounded to 2 decimals, half away from zero.
Numeric2(producto) ==
    IF producto >= 0 THEN (producto + 50) \div 100
    ELSE -(((-producto) + 50) \div 100)

PrecioBs(usd, tasa_bs_por_usd) == Numeric2(usd * tasa_bs_por_usd)

\* A price typed into a catalogue form is a decimal string of any precision,
\* given here in thousandths of a dollar.  _to_decimal keeps every digit: the
\* USD column stores the value rounded to cents, and the Bs column stores the
\* product of the unrounded value and the rate, rounded to cents.
Numeric2DeForm(valor) == (valor + 5) \div 10

PrecioBsDeForm(valor, tasa_bs_por_usd) == (valor * tasa_bs_por_usd + 500) \div 1000

-----------------------------------------------------------------------------
(* Helpers of routes.py *)

SinTasa == [id |-> SinId, fecha |-> SinFecha, tasa_bs_por_usd |-> 0, activo |-> FALSE]

\* Variant that takes the most recently inserted active rate, whatever its date.
_obtener_tasa_actual_UltimoId ==
    LET activas == {t \in tasas : t.activo}
    IN  IF activas = {} THEN SinTasa
        ELSE CHOOSE t \in activas : \A u \in activas : u.id <= t.id

\* Variant that forgets the activo filter.
_obtener_tasa_actual_SinFiltro ==
    IF tasas = {} THEN SinTasa
    ELSE CHOOSE t \in tasas :
            \A u \in tasas : u.fecha < t.fecha \/ (u.fecha = t.fecha /\ u.id <= t.id)

_obtener_tasa_actual ==
    LET activas == {t \in tasas : t.activo}
    IN  IF activas = {} THEN SinTasa
        ELSE CHOOSE t \in activas :
                \A u \in activas :
                    \/ u.fecha < t.fecha
                    \/ (u.fecha = t.fecha /\ u.id <= t.id)

_parse_fecha(value) ==
    IF value.t = "iso" THEN value.d ELSE SinFecha

\* Variants of the overlap query, each with one condition of the query changed
\* the way a slip in the code would change it.
\* Only an existing stay that contains the arrival day conflicts.
Conflictos_SoloLlegada(tabla, habitacion_id, fe, fs, excluir_reservacion_id) ==
    {i \in DOMAIN tabla :
        /\ tabla[i].habitacion_id = habitacion_id
        /\ tabla[i].estado # "cancelada"
        /\ tabla[i].fecha_entrada <= fe
        /\ tabla[i].fecha_salida > fe
        /\ (excluir_reservacion_id # SinId => i # excluir_reservacion_id)}

\* Cancelled rows are not filtered out.
Conflictos_ConCanceladas(tabla, habitacion_id, fe, fs, excluir_reservacion_id) ==
    {i \in DOMAIN tabla :
        /\ tabla[i].habitacion_id = habitacion_id
        /\ tabla[i].fecha_entrada < fs
        /\ tabla[i].fecha_salida > fe
        /\ (excluir_reservacion_id # SinId => i # excluir_reservacion_id)}

\* The row being edited is not excluded.
Conflictos_SinExcluir(tabla, habitacion_id, fe, fs, excluir_reservacion_id) ==
    {i \in DOMAIN tabla :
        /\ tabla[i].habitacion_id = habitacion_id
        /\ tabla[i].estado # "cancelada"
        /\ tabla[i].fecha_entrada < fs
        /\ tabla[i].fecha_salida > fe}

\* The ranges are compared as closed intervals.
Conflictos_Cerrado(tabla, habitacion_id, fe, fs, excluir_reservacion_id) ==
    {i \in DOMAIN tabla :
        /\ tabla[i].habitacion_id = habitacion_id
        /\ tabla[i].estado # "cancelada"
        /\ tabla[i].fecha_entrada <= fs
        /\ tabla[i].fecha_salida >= fe
        /\ (excluir_reservacion_id # SinId => i # excluir_reservacion_id)}

\* The overlap query of _habitacion_disponible against the table rows `tabla`
Conflictos(tabla, habitacion_id, fe, fs, excluir_reservacion_id) ==
    {i \in DOMAIN tabla :
        /\ tabla[i].habitacion_id = habitacion_id
        /\ tabla[i].estado # "cancelada"
        /\ tabla[i].fecha_entrada < fs
        /\ tabla[i].fecha_salida > fe
        /\ (excluir_reservacion_id # SinId => i # excluir_reservacion_id)}

\* Variant of the helper that lets an empty range (check_in = check_out) through.
_habitacion_disponible_RangoVacio(habitacion_id, fecha_entrada, fecha_salida, excluir_reservacion_id) ==
    LET fe == _parse_fecha(fecha_entrada)
        fs == _parse_fecha(fecha_salida)
    IN  IF fe = SinFecha \/ fs = SinFecha \/ fe > fs THEN FALSE
        ELSE Conflictos(reservaciones, habitacion_id, fe, fs, excluir_reservacion_id) = {}

_habitacion_disponible(habitacion_id, fecha_entrada, fecha_salida, excluir_reservacion_id) ==
    LET fe == _parse_fecha(fecha_entrada)
        fs == _parse_fecha(fecha_salida)
    IN  IF fe = SinFecha \/ fs = SinFecha \/ fe >= fs THEN FALSE
        ELSE Conflictos(reservaciones, habitacion_id, fe, fs, excluir_reservacion_id) = {}

-----------------------------------------------------------------------------
(* Rows and responses *)

\* The Date column of reservaciones: the calendar day an ISO string denotes
Date(value) == IF value.t = "iso" THEN value.d ELSE SinFecha

\* Variant of the row constructor with the two date arguments crossed.
Reservacion_FechasCruzadas(habitacion_id, fecha_entrada, fecha_salida, estado, precio_por_noche_usd, precio_por_noche_bs) ==
    [habitacion_id |-> habitacion_id,
     fecha_entrada |-> Date(fecha_salida),
     fecha_salida |-> Date(fecha_entrada),
     estado |-> estado,
     precio_por_noche_usd |-> precio_por_noche_usd,
     precio_por_noche_bs |-> precio_por_noche_bs]

Reservacion(habitacion_id, fecha_entrada, fecha_salida, estado, precio_por_noche_usd, precio_por_noche_bs) ==
    [habitacion_id |-> habitacion_id,
     fecha_entrada |-> Date(fecha_entrada),
     fecha_salida |-> Date(fecha_salida),
     estado |-> estado,
     precio_por_noche_usd |-> precio_por_noche_usd,
     precio_por_noche_bs |-> precio_por_noche_bs]

\* habitacion.tipo.precio_por_noche_usd of an existing room
PrecioTipoUsd(habitacion_id) ==
    tipos[habitaciones[habitacion_id].tipo_habitacion_id].precio_por_noche_usd

SinOp == [op |-> "ninguna", id |-> SinId, habitacion_id |-> SinId,
          fecha_entrada |-> SinFecha, fecha_salida |-> SinFecha, res |-> "ninguna",
          propia |-> FALSE, seguida |-> FALSE, mutada |-> FALSE]

\* What is kept of a handled request: the handler, the reservation id and the
\* response; the room and dates asked for when the response was decided by
\* the availability check (accepted, or refused as not available); and, for an
\* accepted edit, whether the stay asked for shares a night with the stay the
\* row held before it (not cancelled, same room, overlapping dates).
Op(op, id, habitacion_id, fecha_entrada, fecha_salida, res) ==
    IF res \in {"ok", "no_disponible"}
    THEN [op |-> op, id |-> id, habitacion_id |-> habitacion_id,
          fecha_entrada |-> _parse_fecha(fecha_entrada),
          fecha_salida |-> _parse_fecha(fecha_salida), res |-> res,
          propia |-> /\ op = "editar"
                     /\ res = "ok"
                     /\ reservaciones[id].estado # "cancelada"
                     /\ reservaciones[id].habitacion_id = habitacion_id
                     /\ reservaciones[id].fecha_entrada < _parse_fecha(fecha_salida)
                     /\ _parse_fecha(fecha_entrada) < reservaciones[id].fecha_salida,
          seguida |-> FALSE, mutada |-> FALSE]
    ELSE [SinOp EXCEPT !.op = op, !.id = id, !.res = res]

Insertar(tabla, id, fila) ==
    [i \in DOMAIN tabla \cup {id} |-> IF i = id THEN fila ELSE tabla[i]]

Borrar(tabla, id) ==
    [i \in DOMAIN tabla \ {id} |-> tabla[i]]

-----------------------------------------------------------------------------
(* POST /api/reservaciones *)

\* The checks of api_crear_reservacion in the order the handler makes them
RespuestaApiCrear(habitacion_id, fecha_entrada, fecha_salida) ==
    LET fe == _parse_fecha(fecha_entrada)
        fs == _parse_fecha(fecha_salida)
    IN  IF _obtener_tasa_actual = SinTasa THEN "sin_tasa"
        ELSE IF habitacion_id \notin DOMAIN habitaciones THEN "no_encontrada"
        ELSE IF PrecioTipoUsd(habitacion_id) <= 0 THEN "sin_precio"
        ELSE IF fe = SinFecha \/ fs = SinFecha THEN "fecha_invalida"
        ELSE IF fe >= fs THEN "rango_invalido"
        ELSE IF ~_habitacion_disponible(habitacion_id, fecha_entrada, fecha_salida, SinId)
             THEN "no_disponible"
        ELSE "ok"

api_crear_reservacion(habitacion_id, fecha_entrada, fecha_salida, estado) ==
    LET res == RespuestaApiCrear(habitacion_id, fecha_entrada, fecha_salida)
        tasa_actual == _obtener_tasa_actual
    IN  /\ res = "ok" => nextResId \in ReservacionIds
        /\ IF res = "ok"
           THEN LET precio_por_noche_usd == PrecioTipoUsd(habitacion_id)
                    precio_por_noche_bs == PrecioBs(precio_por_noche_usd, tasa_actual.tasa_bs_por_usd)
                IN  /\ reservaciones' = Insertar(reservaciones, nextResId,
                            Reservacion(habitacion_id, fecha_entrada, fecha_salida, estado,
                                        precio_por_noche_usd, precio_por_noche_bs))
                    /\ nextResId' = nextResId + 1
                    /\ ultimaOp' = Op("api_crear", nextResId, habitacion_id, fecha_entrada, fecha_salida, res)
           ELSE /\ UNCHANGED <<reservaciones, nextResId>>
                /\ ultimaOp' = Op("api_crear", SinId, habitacion_id, fecha_entrada, fecha_salida, res)
        /\ UNCHANGED <<tipos, tasas, nextTasaId, consulta, peticiones, ventasVars>>

-----------------------------------------------------------------------------
(* POST /reservaciones/nueva *)

RespuestaCrear(habitacion_id, fecha_entrada, fecha_salida) ==
    LET fe == _parse_fecha(fecha_entrada)
        fs == _parse_fecha(fecha_salida)
    IN  IF _obtener_tasa_actual = SinTasa THEN "sin_tasa"
        ELSE IF fe = SinFecha \/ fs = SinFecha THEN "fecha_invalida"
        ELSE IF fe >= fs THEN "rango_invalido"
        ELSE IF ~_habitacion_disponible(habitacion_id, fecha_entrada, fecha_salida, SinId)
             THEN "no_disponible"
        ELSE IF habitacion_id \notin DOMAIN habitaciones THEN "no_encontrada"
        ELSE "ok"

crear_reservacion(habitacion_id, fecha_entrada, fecha_salida, estado) ==
    LET res == RespuestaCrear(habitacion_id, fecha_entrada, fecha_salida)
        tasa_actual == _obtener_tasa_actual
    IN  /\ res = "ok" => nextResId \in ReservacionIds
        /\ IF res = "ok"
           THEN LET precio_por_noche_usd == PrecioTipoUsd(habitacion_id)
                    precio_por_noche_bs == PrecioBs(precio_por_noche_usd, tasa_actual.tasa_bs_por_usd)
                IN  /\ reservaciones' = Insertar(reservaciones, nextResId,
                            Reservacion(habitacion_id, fecha_entrada, fecha_salida, estado,
                                        precio_por_noche_usd, precio_por_noche_bs))
                    /\ nextResId' = nextResId + 1
                    /\ ultimaOp' = Op("crear", nextResId, habitacion_id, fecha_entrada, fecha_salida, res)
           ELSE /\ UNCHANGED <<reservaciones, nextResId>>
                /\ ultimaOp' = Op("crear", SinId, habitacion_id, fecha_entrada, fecha_salida, res)
        /\ UNCHANGED <<tipos, tasas, nextTasaId, consulta, peticiones, ventasVars>>

-----------------------------------------------------------------------------
(* POST /reservaciones/<id>/editar *)

RespuestaEditar(reservacion_id, habitacion_id, fecha_entrada, fecha_salida) ==
    LET fe == _parse_fecha(fecha_entrada)
        fs == _parse_fecha(fecha_salida)
    IN  IF _obtener_tasa_actual = SinTasa THEN "sin_tasa"
        ELSE IF fe = SinFecha \/ fs = SinFecha THEN "fecha_invalida"
        ELSE IF fe >= fs THEN "rango_invalido"
        ELSE IF ~_habitacion_disponible(habitacion_id, fecha_entrada, fecha_salida, reservacion_id)
             THEN "no_disponible"
        ELSE IF habitacion_id \notin DOMAIN habitaciones THEN "no_encontrada"
        ELSE "ok"

\* The handler assigns habitacion_id, the dates and estado to the row it
\* loaded once the availability check has passed, before it looks the room up:
\* the request ends with the loaded row changed in the session when it got that far
AsignaAntesDeBuscar(res) == res \in {"ok", "no_encontrada"}

editar_reservacion(reservacion_id, habitacion_id, fecha_entrada, fecha_salida, estado) ==
    LET res == RespuestaEditar(reservacion_id, habitacion_id, fecha_entrada, fecha_salida)
        tasa_actual == _obtener_tasa_actual
    IN  /\ reservacion_id \in DOMAIN reservaciones
        /\ IF res = "ok"
           THEN LET precio_por_noche_usd == PrecioTipoUsd(habitacion_id)
                    precio_por_noche_bs == PrecioBs(precio_por_noche_usd, tasa_actual.tasa_bs_por_usd)
                IN  reservaciones' = [reservaciones EXCEPT ![reservacion_id] =
                            Reservacion(habitacion_id, fecha_entrada, fecha_salida, estado,
                                        precio_por_noche_usd, precio_por_noche_bs)]
           ELSE UNCHANGED reservaciones
        /\ ultimaOp' = [Op("editar", reservacion_id, habitacion_id, fecha_entrada, fecha_salida, res)
                            EXCEPT !.mutada = AsignaAntesDeBuscar(res)]
        /\ UNCHANGED <<tipos, tasas, nextTasaId, nextResId, consulta, peticiones, ventasVars>>

-----------------------------------------------------------------------------
(* POST /reservaciones/<id>/eliminar *)

eliminar_reservacion(reservacion_id) ==
    /\ reservacion_id \in DOMAIN reservaciones
    /\ reservaciones' = Borrar(reservaciones, reservacion_id)
    /\ ultimaOp' = [SinOp EXCEPT !.op = "eliminar", !.id = reservacion_id, !.res = "ok"]
    /\ UNCHANGED <<tipos, tasas, nextTasaId, nextResId, consulta, peticiones, ventasVars>>

\* POST /tipos-habitacion/<id>/editar: the USD price comes from the form
\* ("" or absent counts as 0) and the Bs price is recomputed with the current rate
editar_tipo_habitacion(tipo_id, precio_por_noche_usd) ==
    /\ tipo_id \in DOMAIN tipos
    /\ LET tasa_actual == _obtener_tasa_actual
       IN  IF tasa_actual = SinTasa
           THEN /\ ultimaOp' = [SinOp EXCEPT !.op = "editar_tipo", !.res = "sin_tasa"]
                /\ UNCHANGED tipos
           ELSE /\ tipos' = [tipos EXCEPT ![tipo_id] =
                        [precio_por_noche_usd |-> Numeric2DeForm(precio_por_noche_usd),
                         precio_por_noche_bs |-> PrecioBsDeForm(precio_por_noche_usd, tasa_actual.tasa_bs_por_usd)]]
                /\ ultimaOp' = [SinOp EXCEPT !.op = "editar_tipo", !.id = tipo_id, !.res = "ok"]
    /\ UNCHANGED <<tasas, nextTasaId, reservaciones, nextResId, consulta, peticiones, ventasVars>>

\* bool(request.form.get('activo', True)): only a field sent empty is false
Bool(valor) == valor # ""

\* Variant that also re-prices the reservations on file with the new rate.
crear_tasa_ConRecalculo(fecha, tasa_bs_por_usd, activo) ==
    /\ nextTasaId \in TasaIds
    /\ IF \E t \in tasas : t.fecha = fecha
       THEN /\ ultimaOp' = [SinOp EXCEPT !.op = "crear_tasa", !.res = "fecha_repetida"]
            /\ UNCHANGED <<tasas, nextTasaId, reservaciones>>
       ELSE /\ tasas' = tasas \cup {[id |-> nextTasaId, fecha |-> fecha,
                                     tasa_bs_por_usd |-> tasa_bs_por_usd, activo |-> Bool(activo)]}
            /\ nextTasaId' = nextTasaId + 1
            /\ reservaciones' = [i \in DOMAIN reservaciones |->
                    [reservaciones[i] EXCEPT !.precio_por_noche_bs =
                        PrecioBs(reservaciones[i].precio_por_noche_usd, tasa_bs_por_usd)]]
            /\ ultimaOp' = [SinOp EXCEPT !.op = "crear_tasa", !.res = "ok"]
    /\ UNCHANGED <<tipos, nextResId, consulta, peticiones, ventasVars>>

\* POST /tasas/nueva: one more row in the ledger; the unique date makes the
\* commit fail when the ledger already has a rate for that date
crear_tasa(fecha, tasa_bs_por_usd, activo) ==
    /\ nextTasaId \in TasaIds
    /\ IF \E t \in tasas : t.fecha = fecha
       THEN /\ ultimaOp' = [SinOp EXCEPT !.op = "crear_tasa", !.res = "fecha_repetida"]
            /\ UNCHANGED <<tasas, nextTasaId>>
       ELSE /\ tasas' = tasas \cup {[id |-> nextTasaId, fecha |-> fecha,
                                     tasa_bs_por_usd |-> tasa_bs_por_usd, activo |-> Bool(activo)]}
            /\ nextTasaId' = nextTasaId + 1
            /\ ultimaOp' = [SinOp EXCEPT !.op = "crear_tasa", !.res = "ok"]
    /\ UNCHANGED <<tipos, reservaciones, nextResId, consulta, peticiones, ventasVars>>

\* POST /tasas/<id>/editar: date, value and flag are overwritten from the
\* form; the unique date makes the commit fail when another row has that date
editar_tasa(tasa_id, fecha, tasa_bs_por_usd, activo) ==
    /\ \E t \in tasas : t.id = tasa_id
    /\ IF \E t \in tasas : t.id # tasa_id /\ t.fecha = fecha
       THEN /\ ultimaOp' = [SinOp EXCEPT !.op = "editar_tasa", !.id = tasa_id, !.res = "fecha_repetida"]
            /\ UNCHANGED tasas
       ELSE /\ tasas' = {t \in tasas : t.id # tasa_id} \cup
                        {[id |-> tasa_id, fecha |-> fecha,
                          tasa_bs_por_usd |-> tasa_bs_por_usd, activo |-> Bool(activo)]}
            /\ ultimaOp' = [SinOp EXCEPT !.op = "editar_tasa", !.id = tasa_id, !.res = "ok"]
    /\ UNCHANGED <<tipos, nextTasaId, reservaciones, nextResId, consulta, peticiones, ventasVars>>

\* POST /tasas/<id>/eliminar
eliminar_tasa(tasa_id) ==
    /\ \E t \in tasas : t.id = tasa_id
    /\ tasas' = {t \in tasas : t.id # tasa_id}
    /\ ultimaOp' = [SinOp EXCEPT !.op = "eliminar_tasa", !.id = tasa_id, !.res = "ok"]
    /\ UNCHANGED <<tipos, nextTasaId, reservaciones, nextResId, consulta, peticiones, ventasVars>>

\* GET /api/tasas/actual: the id of the rate returned, or 404
api_tasa_actual ==
    /\ LET tasa == _obtener_tasa_actual
       IN  ultimaOp' = [SinOp EXCEPT !.op = "api_tasa_actual", !.id = tasa.id,
                                     !.res = IF tasa = SinTasa THEN "sin_tasa" ELSE "ok"]
    /\ UNCHANGED <<tipos, tasas, nextTasaId, reservaciones, nextResId, consulta, peticiones, ventasVars>>

\* POST /tipos-habitacion/nuevo, /planes-turisticos/nuevo and
\* /productos-restaurante/nuevo: a new row priced with the current rate; each
\* table takes rows up to MaxCatalogo
crear_tipo_habitacion(precio_por_noche_usd) ==
    LET tasa_actual == _obtener_tasa_actual
        nuevo == Cardinality(DOMAIN tipos) + 1
    IN  /\ nuevo <= MaxCatalogo
        /\ IF tasa_actual = SinTasa
           THEN /\ ultimaOp' = [SinOp EXCEPT !.op = "crear_tipo", !.res = "sin_tasa"]
                /\ UNCHANGED tipos
           ELSE /\ tipos' = Insertar(tipos, nuevo,
                        [precio_por_noche_usd |-> Numeric2DeForm(precio_por_noche_usd),
                         precio_por_noche_bs |-> PrecioBsDeForm(precio_por_noche_usd, tasa_actual.tasa_bs_por_usd)])
                /\ ultimaOp' = [SinOp EXCEPT !.op = "crear_tipo", !.id = nuevo, !.res = "ok"]
        /\ UNCHANGED <<tasas, nextTasaId, reservaciones, nextResId, consulta, peticiones, ventasVars>>

\* Variant that inserts the plan with a Bs price of 0 when there is no rate.
crear_plan_turistico_SinGuarda(precio_usd, activo) ==
    LET tasa_actual == _obtener_tasa_actual
        nuevo == Cardinality(DOMAIN planes) + 1
    IN  /\ nuevo <= MaxCatalogo
        /\ planes' = Insertar(planes, nuevo,
                [precio_usd |-> Numeric2DeForm(precio_usd),
                 precio_bs |-> PrecioBsDeForm(precio_usd, tasa_actual.tasa_bs_por_usd),
                 activo |-> Bool(activo)])
        /\ ultimaOp' = [SinOp EXCEPT !.op = "crear_plan", !.id = nuevo,
                                     !.res = IF tasa_actual = SinTasa THEN "sin_tasa" ELSE "ok"]
        /\ UNCHANGED <<tipos, tasas, nextTasaId, reservaciones, nextResId, consulta, peticiones,
                       productos, ventas, nextVentaId, pedido>>

crear_plan_turistico(precio_usd, activo) ==
    LET tasa_actual == _obtener_tasa_actual
        nuevo == Cardinality(DOMAIN planes) + 1
    IN  /\ nuevo <= MaxCatalogo
        /\ IF tasa_actual = SinTasa
           THEN /\ ultimaOp' = [SinOp EXCEPT !.op = "crear_plan", !.res = "sin_tasa"]
                /\ UNCHANGED planes
           ELSE /\ planes' = Insertar(planes, nuevo,
                        [precio_usd |-> Numeric2DeForm(precio_usd),
                         precio_bs |-> PrecioBsDeForm(precio_usd, tasa_actual.tasa_bs_por_usd),
                         activo |-> Bool(activo)])
                /\ ultimaOp' = [SinOp EXCEPT !.op = "crear_plan", !.id = nuevo, !.res = "ok"]
        /\ UNCHANGED <<tipos, tasas, nextTasaId, reservaciones, nextResId, consulta, peticiones,
                       productos, ventas, nextVentaId, pedido>>

crear_producto_restaurante(precio_unitario_usd, activo) ==
    LET tasa_actual == _obtener_tasa_actual
        nuevo == Cardinality(DOMAIN productos) + 1
    IN  /\ nuevo <= MaxCatalogo
        /\ IF tasa_actual = SinTasa
           THEN /\ ultimaOp' = [SinOp EXCEPT !.op = "crear_producto", !.res = "sin_tasa"]
                /\ UNCHANGED productos
           ELSE /\ productos' = Insertar(productos, nuevo,
                        [precio_unitario_usd |-> Numeric2DeForm(precio_unitario_usd),
                         precio_unitario_bs |-> PrecioBsDeForm(precio_unitario_usd, tasa_actual.tasa_bs_por_usd),
                         activo |-> Bool(activo)])
                /\ ultimaOp' = [SinOp EXCEPT !.op = "crear_producto", !.id = nuevo, !.res = "ok"]
        /\ UNCHANGED <<tipos, tasas, nextTasaId, reservaciones, nextResId, consulta, peticiones,
                       planes, ventas, nextVentaId, pedido>>

\* POST /planes-turisticos/<id>/editar
editar_plan_turistico(plan_id, precio_usd, activo) ==
    /\ plan_id \in DOMAIN planes
    /\ LET tasa_actual == _obtener_tasa_actual
       IN  IF tasa_actual = SinTasa
           THEN /\ ultimaOp' = [SinOp EXCEPT !.op = "editar_plan", !.id = plan_id, !.res = "sin_tasa"]
                /\ UNCHANGED planes
           ELSE /\ planes' = [planes EXCEPT ![plan_id] =
                        [precio_usd |-> Numeric2DeForm(precio_usd),
                         precio_bs |-> PrecioBsDeForm(precio_usd, tasa_actual.tasa_bs_por_usd),
                         activo |-> Bool(activo)]]
                /\ ultimaOp' = [SinOp EXCEPT !.op = "editar_plan", !.id = plan_id, !.res = "ok"]
    /\ UNCHANGED <<tipos, tasas, nextTasaId, reservaciones, nextResId, consulta, peticiones,
                   productos, ventas, nextVentaId, pedido>>

\* POST /productos-restaurante/<id>/editar
editar_producto_restaurante(producto_id, precio_unitario_usd, activo) ==
    /\ producto_id \in DOMAIN productos
    /\ LET tasa_actual == _obtener_tasa_actual
       IN  IF tasa_actual = SinTasa
           THEN /\ ultimaOp' = [SinOp EXCEPT !.op = "editar_producto", !.id = producto_id, !.res = "sin_tasa"]
                /\ UNCHANGED productos
           ELSE /\ productos' = [productos EXCEPT ![producto_id] =
                        [precio_unitario_usd |-> Numeric2DeForm(precio_unitario_usd),
                         precio_unitario_bs |-> PrecioBsDeForm(precio_unitario_usd, tasa_actual.tasa_bs_por_usd),
                         activo |-> Bool(activo)]]
                /\ ultimaOp' = [SinOp EXCEPT !.op = "editar_producto", !.id = producto_id, !.res = "ok"]
    /\ UNCHANGED <<tipos, tasas, nextTasaId, reservaciones, nextResId, consulta, peticiones,
                   planes, ventas, nextVentaId, pedido>>

-----------------------------------------------------------------------------
(* Sales: POST /ventas/nueva, /ventas/<id>/editar, /ventas/<id>/eliminar *)

\* (tipos[i] or '').strip().lower()
Normalizar(tipo) ==
    CASE tipo = "PLAN " -> "plan"
      [] tipo = " Producto" -> "producto"
      [] OTHER -> tipo

\* Variant of the loop body that does not look at the activo flag.
ProcesarItem_SinActivo(form, i, tasa_valor, acc) ==
    LET tipo == Normalizar(form.item_tipo[i])
        item_id == IF i <= Len(form.item_id) THEN form.item_id[i] ELSE Entero(0)
        cantidad == IF i <= Len(form.item_cantidad) THEN form.item_cantidad[i] ELSE Entero(1)
        es_plan == tipo = "plan" /\ item_id.n \in DOMAIN planes
        es_producto == tipo = "producto" /\ item_id.n \in DOMAIN productos
        precio_usd == IF es_plan THEN planes[item_id.n].precio_usd
                      ELSE productos[item_id.n].precio_unitario_usd
        total_usd == precio_usd * cantidad.n
    IN  IF item_id.t # "int" \/ cantidad.t # "int" THEN acc
        ELSE IF cantidad.n < 1 THEN acc
        ELSE IF ~es_plan /\ ~es_producto THEN acc
        ELSE [detalles |-> Append(acc.detalles,
                    [plan_turistico_id |-> IF es_plan THEN item_id.n ELSE SinId,
                     producto_restaurante_id |-> IF es_plan THEN SinId ELSE item_id.n,
                     cantidad |-> cantidad.n,
                     precio_unitario_usd |-> precio_usd,
                     precio_unitario_bs |-> PrecioBs(precio_usd, tasa_valor),
                     total_usd |-> total_usd,
                     total_bs |-> PrecioBs(total_usd, tasa_valor)]),
              subtotal_usd |-> acc.subtotal_usd + total_usd,
              tiene_plan |-> acc.tiene_plan \/ es_plan,
              tiene_producto |-> acc.tiene_producto \/ ~es_plan]

\* One pass of the loop of _procesar_items_venta over position i of the form
\* lists: acc is (detalles, subtotal_usd, tiene_plan, tiene_producto) so far
ProcesarItem(form, i, tasa_valor, acc) ==
    LET tipo == Normalizar(form.item_tipo[i])
        item_id == IF i <= Len(form.item_id) THEN form.item_id[i] ELSE Entero(0)
        cantidad == IF i <= Len(form.item_cantidad) THEN form.item_cantidad[i] ELSE Entero(1)
        es_plan == tipo = "plan" /\ item_id.n \in DOMAIN planes /\ planes[item_id.n].activo
        es_producto == tipo = "producto" /\ item_id.n \in DOMAIN productos /\ productos[item_id.n].activo
        precio_usd == IF es_plan THEN planes[item_id.n].precio_usd
                      ELSE productos[item_id.n].precio_unitario_usd
        total_usd == precio_usd * cantidad.n
    IN  IF item_id.t # "int" \/ cantidad.t # "int" THEN acc
        ELSE IF cantidad.n < 1 THEN acc
        ELSE IF ~es_plan /\ ~es_producto THEN acc
        ELSE [detalles |-> Append(acc.detalles,
                    [plan_turistico_id |-> IF es_plan THEN item_id.n ELSE SinId,
                     producto_restaurante_id |-> IF es_plan THEN SinId ELSE item_id.n,
                     cantidad |-> cantidad.n,
                     precio_unitario_usd |-> precio_usd,
                     precio_unitario_bs |-> PrecioBs(precio_usd, tasa_valor),
                     total_usd |-> total_usd,
                     total_bs |-> PrecioBs(total_usd, tasa_valor)]),
              subtotal_usd |-> acc.subtotal_usd + total_usd,
              tiene_plan |-> acc.tiene_plan \/ es_plan,
              tiene_producto |-> acc.tiene_producto \/ ~es_plan]

RECURSIVE ProcesarHasta(_, _, _)
ProcesarHasta(form, n, tasa_valor) ==
    IF n = 0
    THEN [detalles |-> <<>>, subtotal_usd |-> 0, tiene_plan |-> FALSE, tiene_producto |-> FALSE]
    ELSE ProcesarItem(form, n, tasa_valor, ProcesarHasta(form, n - 1, tasa_valor))

\* Variant that classifies a sale with any plan line as a plan sale.
_procesar_items_venta_PlanPrimero(form, tasa_valor) ==
    LET r == ProcesarHasta(form, Len(form.item_tipo), tasa_valor)
    IN  [detalles |-> r.detalles,
         subtotal_usd |-> r.subtotal_usd,
         tipo_venta |-> IF r.tiene_plan THEN "plan_turistico" ELSE "restaurante"]

_procesar_items_venta(form, tasa_valor) ==
    LET r == ProcesarHasta(form, Len(form.item_tipo), tasa_valor)
    IN  [detalles |-> r.detalles,
         subtotal_usd |-> r.subtotal_usd,
         tipo_venta |-> IF r.tiene_plan /\ r.tiene_producto THEN "mixta"
                        ELSE IF r.tiene_plan THEN "plan_turistico"
                        ELSE "restaurante"]

\* The Venta row and its VentaDetalle rows as the handlers build them.  The
\* tax is the decimal string of the request, in thousandths of a dollar:
\* impuesto_bs and total_bs are computed from it before the columns round it
Venta(compuesta, impuesto_usd, tasa_valor) ==
    [tipo |-> compuesta.tipo_venta,
     subtotal_usd |-> compuesta.subtotal_usd,
     subtotal_bs |-> PrecioBs(compuesta.subtotal_usd, tasa_valor),
     impuesto_usd |-> Numeric2DeForm(impuesto_usd),
     impuesto_bs |-> PrecioBsDeForm(impuesto_usd, tasa_valor),
     total_usd |-> Numeric2DeForm(compuesta.subtotal_usd * 10 + impuesto_usd),
     total_bs |-> PrecioBsDeForm(compuesta.subtotal_usd * 10 + impuesto_usd, tasa_valor),
     detalles |-> compuesta.detalles]

RespuestaVenta(form) ==
    IF _obtener_tasa_actual = SinTasa THEN "sin_tasa"
    ELSE IF _procesar_items_venta(form, _obtener_tasa_actual.tasa_bs_por_usd).detalles = <<>>
         THEN "sin_items"
    ELSE "ok"

\* The type _procesar_items_venta returns to the handler, when it is called
TipoCompuesto(form) ==
    IF _obtener_tasa_actual = SinTasa THEN "ninguno"
    ELSE _procesar_items_venta(form, _obtener_tasa_actual.tasa_bs_por_usd).tipo_venta

crear_venta(form) ==
    LET res == RespuestaVenta(form)
        tasa_valor == _obtener_tasa_actual.tasa_bs_por_usd
    IN  /\ res = "ok" => nextVentaId \in VentaIds
        /\ IF res = "ok"
           THEN /\ ventas' = Insertar(ventas, nextVentaId,
                        Venta(_procesar_items_venta(form, tasa_valor), form.impuesto_usd, tasa_valor))
                /\ nextVentaId' = nextVentaId + 1
           ELSE UNCHANGED <<ventas, nextVentaId>>
        /\ pedido' = [form EXCEPT !.res = res, !.id = IF res = "ok" THEN nextVentaId ELSE SinId,
                                  !.tipo_venta = TipoCompuesto(form)]
        /\ ultimaOp' = [SinOp EXCEPT !.op = "crear_venta", !.res = res,
                                     !.id = IF res = "ok" THEN nextVentaId ELSE SinId]
        /\ UNCHANGED <<tipos, tasas, nextTasaId, reservaciones, nextResId, consulta, peticiones,
                       planes, productos>>

\* Variant that drops the lines on file before it looks at the new ones.
editar_venta_BorraAntes(venta_id, form) ==
    LET res == RespuestaVenta(form)
        tasa_valor == _obtener_tasa_actual.tasa_bs_por_usd
    IN  /\ venta_id \in DOMAIN ventas
        /\ IF res = "ok"
           THEN ventas' = [ventas EXCEPT ![venta_id] =
                        Venta(_procesar_items_venta(form, tasa_valor), form.impuesto_usd, tasa_valor)]
           ELSE ventas' = [ventas EXCEPT ![venta_id].detalles = <<>>]
        /\ pedido' = [form EXCEPT !.res = res, !.id = venta_id, !.tipo_venta = TipoCompuesto(form)]
        /\ ultimaOp' = [SinOp EXCEPT !.op = "editar_venta", !.res = res, !.id = venta_id]
        /\ UNCHANGED <<tipos, tasas, nextTasaId, reservaciones, nextResId, consulta, peticiones,
                       planes, productos, nextVentaId>>

\* POST /ventas/<id>/editar
editar_venta(venta_id, form) ==
    LET res == RespuestaVenta(form)
        tasa_valor == _obtener_tasa_actual.tasa_bs_por_usd
    IN  /\ venta_id \in DOMAIN ventas
        /\ IF res = "ok"
           THEN ventas' = [ventas EXCEPT ![venta_id] =
                        Venta(_procesar_items_venta(form, tasa_valor), form.impuesto_usd, tasa_valor)]
           ELSE UNCHANGED ventas
        /\ pedido' = [form EXCEPT !.res = res, !.id = venta_id, !.tipo_venta = TipoCompuesto(form)]
        /\ ultimaOp' = [SinOp EXCEPT !.op = "editar_venta", !.res = res, !.id = venta_id]
        /\ UNCHANGED <<tipos, tasas, nextTasaId, reservaciones, nextResId, consulta, peticiones,
                       planes, productos, nextVentaId>>

eliminar_venta(venta_id) ==
    /\ venta_id \in DOMAIN ventas
    /\ ventas' = Borrar(ventas, venta_id)
    /\ ultimaOp' = [SinOp EXCEPT !.op = "eliminar_venta", !.res = "ok", !.id = venta_id]
    /\ UNCHANGED <<tipos, tasas, nextTasaId, reservaciones, nextResId, consulta, peticiones,
                   planes, productos, nextVentaId, pedido>>

-----------------------------------------------------------------------------
(* Sale lines written without the composer: POST /api/ventas and the
   /ventas-detalle routes.  A NULL id is SinId; ids and amounts come from the
   request.  An auto-increment id used up by a rolled-back insert is not
   modelled. *)

\* Variant of the table without its CHECK constraint.
check_solo_un_producto_SinRestriccion(producto_restaurante_id, plan_turistico_id) == TRUE

\* CHECK constraint check_solo_un_producto of ventas_detalle
check_solo_un_producto(producto_restaurante_id, plan_turistico_id) ==
    \/ producto_restaurante_id # SinId /\ plan_turistico_id = SinId
    \/ producto_restaurante_id = SinId /\ plan_turistico_id # SinId

\* Foreign keys of ventas_detalle to productos_restaurante and planes_turisticos
ClavesForaneas(producto_restaurante_id, plan_turistico_id) ==
    /\ producto_restaurante_id # SinId => producto_restaurante_id \in DOMAIN productos
    /\ plan_turistico_id # SinId => plan_turistico_id \in DOMAIN planes

\* int(x or 1) of a value that int() accepts
CantidadO1(cantidad) == IF cantidad.n = 0 THEN 1 ELSE cantidad.n

\* The VentaDetalle api_crear_venta builds from one JSON item
DetalleApi(item, tasa_valor) ==
    LET cantidad == CantidadO1(item.cantidad)
        total_usd_detalle == item.precio_unitario_usd * cantidad
    IN  [plan_turistico_id |-> item.plan_turistico_id,
         producto_restaurante_id |-> item.producto_restaurante_id,
         cantidad |-> cantidad,
         precio_unitario_usd |-> item.precio_unitario_usd,
         precio_unitario_bs |-> PrecioBs(item.precio_unitario_usd, tasa_valor),
         total_usd |-> total_usd_detalle,
         total_bs |-> PrecioBs(total_usd_detalle, tasa_valor)]

RECURSIVE SumaApi(_)
SumaApi(detalles) ==
    IF detalles = <<>> THEN 0 ELSE Head(detalles).total_usd + SumaApi(Tail(detalles))

\* 400 for an empty item list or no rate; 500 when int() raises or the commit
\* fails on a foreign key ("error") or on the CHECK constraint ("check")
RespuestaApiVenta(items) ==
    IF items = <<>> THEN "sin_items"
    ELSE IF _obtener_tasa_actual = SinTasa THEN "sin_tasa"
    ELSE IF \E k \in DOMAIN items : items[k].cantidad.t # "int" THEN "error"
    ELSE IF \E k \in DOMAIN items :
                ~ClavesForaneas(items[k].producto_restaurante_id, items[k].plan_turistico_id)
         THEN "error"
    ELSE IF \E k \in DOMAIN items :
                ~check_solo_un_producto(items[k].producto_restaurante_id, items[k].plan_turistico_id)
         THEN "check"
    ELSE "ok"

\* POST /api/ventas
api_crear_venta(tipo, items, impuesto_usd) ==
    LET res == RespuestaApiVenta(items)
        tasa_valor == _obtener_tasa_actual.tasa_bs_por_usd
    IN  /\ res = "ok" => nextVentaId \in VentaIds
        /\ IF res = "ok"
           THEN LET detalles == [k \in DOMAIN items |-> DetalleApi(items[k], tasa_valor)]
                IN  /\ ventas' = Insertar(ventas, nextVentaId,
                            Venta([detalles |-> detalles, subtotal_usd |-> SumaApi(detalles),
                                   tipo_venta |-> tipo], impuesto_usd, tasa_valor))
                    /\ nextVentaId' = nextVentaId + 1
           ELSE UNCHANGED <<ventas, nextVentaId>>
        /\ ultimaOp' = [SinOp EXCEPT !.op = "api_crear_venta", !.res = res,
                                     !.id = IF res = "ok" THEN nextVentaId ELSE SinId]
        /\ UNCHANGED <<tipos, tasas, nextTasaId, reservaciones, nextResId, consulta, peticiones,
                       planes, productos, pedido>>

\* The outcome of a /ventas-detalle form: no rate, int() raising, a failed
\* foreign key or NOT NULL ("error"), the CHECK constraint ("check"), or a commit
RespuestaDetalle(venta_id, producto_restaurante_id, plan_turistico_id, cantidad) ==
    IF _obtener_tasa_actual = SinTasa THEN "sin_tasa"
    ELSE IF cantidad.t # "int" THEN "error"
    ELSE IF venta_id \notin DOMAIN ventas THEN "error"
    ELSE IF ~ClavesForaneas(producto_restaurante_id, plan_turistico_id) THEN "error"
    ELSE IF ~check_solo_un_producto(producto_restaurante_id, plan_turistico_id) THEN "check"
    ELSE "ok"

\* The row the /ventas-detalle forms write: unit price and total both come
\* from the form, the Bs amounts from the current rate
DetalleForm(producto_restaurante_id, plan_turistico_id, cantidad, precio_unitario_usd, total_usd, tasa_valor) ==
    [plan_turistico_id |-> plan_turistico_id,
     producto_restaurante_id |-> producto_restaurante_id,
     cantidad |-> CantidadO1(cantidad),
     precio_unitario_usd |-> precio_unitario_usd,
     precio_unitario_bs |-> PrecioBs(precio_unitario_usd, tasa_valor),
     total_usd |-> total_usd,
     total_bs |-> PrecioBs(total_usd, tasa_valor)]

\* A sequence without its k-th element
SinElemento(seq, k) == [i \in 1..(Len(seq) - 1) |-> IF i < k THEN seq[i] ELSE seq[i + 1]]

\* POST /ventas-detalle/nuevo (a sale takes at most MaxLineas lines this way)
crear_venta_detalle(venta_id, producto_restaurante_id, plan_turistico_id, cantidad, precio_unitario_usd, total_usd) ==
    LET res == RespuestaDetalle(venta_id, producto_restaurante_id, plan_turistico_id, cantidad)
        tasa_valor == _obtener_tasa_actual.tasa_bs_por_usd
    IN  /\ venta_id \in DOMAIN ventas => Len(ventas[venta_id].detalles) < MaxLineas
        /\ IF res = "ok"
           THEN ventas' = [ventas EXCEPT ![venta_id].detalles = Append(@,
                        DetalleForm(producto_restaurante_id, plan_turistico_id, cantidad,
                                    precio_unitario_usd, total_usd, tasa_valor))]
           ELSE UNCHANGED ventas
        /\ ultimaOp' = [SinOp EXCEPT !.op = "crear_venta_detalle", !.res = res, !.id = venta_id]
        /\ UNCHANGED <<tipos, tasas, nextTasaId, reservaciones, nextResId, consulta, peticiones,
                       planes, productos, nextVentaId, pedido>>

\* POST /ventas-detalle/<id>/editar, for the k-th line of sale venta_actual:
\* the form names the sale the line belongs to from now on
editar_venta_detalle(venta_actual, k, venta_id, producto_restaurante_id, plan_turistico_id, cantidad, precio_unitario_usd, total_usd) ==
    LET res == RespuestaDetalle(venta_id, producto_restaurante_id, plan_turistico_id, cantidad)
        tasa_valor == _obtener_tasa_actual.tasa_bs_por_usd
        detalle == DetalleForm(producto_restaurante_id, plan_turistico_id, cantidad,
                               precio_unitario_usd, total_usd, tasa_valor)
    IN  /\ venta_actual \in DOMAIN ventas
        /\ k \in DOMAIN ventas[venta_actual].detalles
        /\ IF res # "ok" THEN UNCHANGED ventas
           ELSE IF venta_id = venta_actual
                THEN ventas' = [ventas EXCEPT ![venta_actual].detalles[k] = detalle]
                ELSE ventas' = [ventas EXCEPT
                        ![venta_actual].detalles = SinElemento(@, k),
                        ![venta_id].detalles = Append(@, detalle)]
        /\ ultimaOp' = [SinOp EXCEPT !.op = "editar_venta_detalle", !.res = res, !.id = venta_actual]
        /\ UNCHANGED <<tipos, tasas, nextTasaId, reservaciones, nextResId, consulta, peticiones,
                       planes, productos, nextVentaId, pedido>>

\* POST /ventas-detalle/<id>/eliminar, for the k-th line of sale venta_actual
eliminar_venta_detalle(venta_actual, k) ==
    /\ venta_actual \in DOMAIN ventas
    /\ k \in DOMAIN ventas[venta_actual].detalles
    /\ ventas' = [ventas EXCEPT ![venta_actual].detalles = SinElemento(@, k)]
    /\ ultimaOp' = [SinOp EXCEPT !.op = "eliminar_venta_detalle", !.res = "ok", !.id = venta_actual]
    /\ UNCHANGED <<tipos, tasas, nextTasaId, reservaciones, nextResId, consulta, peticiones,
                   planes, productos, nextVentaId, pedido>>

-----------------------------------------------------------------------------
(* POST /tasas/actualizar-precios *)

\* Variant that adds the converted amount to the Bs amount on file.
Recalculo_Sumado(usd, bs, tasa_valor) == bs + PrecioBs(usd, tasa_valor)

\* The Bs amount the recompute writes next to a USD amount
Recalculo(usd, bs, tasa_valor) == PrecioBs(usd, tasa_valor)

\* Variant that leaves the lines of the sale as they are.
VentaRecalculada_SinDetalles(venta, tasa_valor) ==
    [venta EXCEPT
        !.subtotal_bs = Recalculo(venta.subtotal_usd, venta.subtotal_bs, tasa_valor),
        !.impuesto_bs = Recalculo(venta.impuesto_usd, venta.impuesto_bs, tasa_valor),
        !.total_bs = Recalculo(venta.total_usd, venta.total_bs, tasa_valor)]

\* A sale and its lines with every Bs amount recomputed from its USD amount
VentaRecalculada(venta, tasa_valor) ==
    [venta EXCEPT
        !.subtotal_bs = Recalculo(venta.subtotal_usd, venta.subtotal_bs, tasa_valor),
        !.impuesto_bs = Recalculo(venta.impuesto_usd, venta.impuesto_bs, tasa_valor),
        !.total_bs = Recalculo(venta.total_usd, venta.total_bs, tasa_valor),
        !.detalles = [k \in DOMAIN venta.detalles |->
            [venta.detalles[k] EXCEPT
                !.precio_unitario_bs = Recalculo(venta.detalles[k].precio_unitario_usd,
                                               venta.detalles[k].precio_unitario_bs, tasa_valor),
                !.total_bs = Recalculo(venta.detalles[k].total_usd, venta.detalles[k].total_bs, tasa_valor)]]]

actualizar_precios_con_tasa ==
    LET tasa_actual == _obtener_tasa_actual
        tasa_valor == tasa_actual.tasa_bs_por_usd
    IN  /\ IF tasa_actual = SinTasa
           THEN /\ ultimaOp' = [SinOp EXCEPT !.op = "actualizar_precios", !.res = "sin_tasa"]
                /\ UNCHANGED <<tipos, planes, productos, reservaciones, ventas>>
           ELSE /\ tipos' = [t \in DOMAIN tipos |-> [tipos[t] EXCEPT !.precio_por_noche_bs =
                        Recalculo(tipos[t].precio_por_noche_usd, tipos[t].precio_por_noche_bs, tasa_valor)]]
                /\ planes' = [i \in DOMAIN planes |-> [planes[i] EXCEPT !.precio_bs =
                        Recalculo(planes[i].precio_usd, planes[i].precio_bs, tasa_valor)]]
                /\ productos' = [i \in DOMAIN productos |-> [productos[i] EXCEPT !.precio_unitario_bs =
                        Recalculo(productos[i].precio_unitario_usd, productos[i].precio_unitario_bs, tasa_valor)]]
                /\ reservaciones' = [i \in DOMAIN reservaciones |->
                        [reservaciones[i] EXCEPT !.precio_por_noche_bs =
                            Recalculo(reservaciones[i].precio_por_noche_usd,
                                      reservaciones[i].precio_por_noche_bs, tasa_valor)]]
                /\ ventas' = [i \in DOMAIN ventas |-> VentaRecalculada(ventas[i], tasa_valor)]
                /\ ultimaOp' = [SinOp EXCEPT !.op = "actualizar_precios", !.id = tasa_actual.id,
                        !.res = "ok",
                        !.seguida = /\ ultimaOp.op = "actualizar_precios"
                                    /\ ultimaOp.res = "ok"
                                    /\ ultimaOp.id = tasa_actual.id]
        /\ UNCHANGED <<tasas, nextTasaId, nextResId, consulta, peticiones, nextVentaId, pedido>>

-----------------------------------------------------------------------------
(* The reservation desk, one request at a time *)

TasaInicial == [id |-> 1, fecha |-> 2, tasa_bs_por_usd |-> 3657, activo |-> TRUE]

TiposIniciales ==
    [t \in TipoIds |->
        LET usd == IF t = 1 THEN 1099 ELSE 2000
        IN  [precio_por_noche_usd |-> usd,
             precio_por_noche_bs |-> PrecioBs(usd, TasaInicial.tasa_bs_por_usd)]]

SinPeticion == [pc |-> "libre", habitacion_id |-> SinId, fecha_entrada |-> ValorNulo,
                fecha_salida |-> ValorNulo, estado |-> "confirmada",
                precio_por_noche_usd |-> 0, tasa_bs_por_usd |-> 0, id |-> SinId]

Workers == {1, 2}

\* The tourism plans and restaurant products on file: 1 is on sale, 2 has
\* been withdrawn (activo false); no other id exists
PlanesIniciales ==
    [i \in {1, 2} |->
        [precio_usd |-> IF i = 1 THEN 5000 ELSE 7549,
         precio_bs |-> PrecioBs(IF i = 1 THEN 5000 ELSE 7549, TasaInicial.tasa_bs_por_usd),
         activo |-> (i = 1)]]

ProductosIniciales ==
    [i \in {1, 2} |->
        [precio_unitario_usd |-> IF i = 1 THEN 1034 ELSE 250,
         precio_unitario_bs |-> PrecioBs(IF i = 1 THEN 1034 ELSE 250, TasaInicial.tasa_bs_por_usd),
         activo |-> (i = 1)]]

SinPedido == [item_tipo |-> <<>>, item_id |-> <<>>, item_cantidad |-> <<>>,
              impuesto_usd |-> 0, res |-> "ninguno", id |-> SinId, tipo_venta |-> "ninguno"]

SinConsulta == [habitacion_id |-> SinId, fecha_entrada |-> ValorNulo, fecha_salida |-> ValorNulo,
                excluir_reservacion_id |-> SinId, res |-> "ninguna"]

Init ==
    /\ tipos = TiposIniciales
    /\ tasas = {TasaInicial}
    /\ nextTasaId = 2
    /\ reservaciones = <<>>
    /\ nextResId = 1
    /\ ultimaOp = SinOp
    /\ consulta = SinConsulta
    /\ peticiones = [w \in Workers |-> SinPeticion]
    /\ planes = PlanesIniciales
    /\ productos = ProductosIniciales
    /\ ventas = <<>>
    /\ nextVentaId = 1
    /\ pedido = SinPedido

\* What a form or a JSON body can carry
HabitacionesForm == {1, 2}
FechasForm == {ValorIso(d) : d \in Dias} \cup {ValorTexto}
EstadosForm == {"confirmada", "cancelada"}

Next ==
    \/ \E h \in HabitacionesForm, fe \in FechasForm, fs \in FechasForm, e \in EstadosForm :
            api_crear_reservacion(h, fe, fs, e)
    \/ \E h \in HabitacionesForm, fe \in FechasForm, fs \in FechasForm, e \in EstadosForm :
            crear_reservacion(h, fe, fs, e)
    \/ \E r \in ReservacionIds, h \in HabitacionesForm, fe \in FechasForm, fs \in FechasForm, e \in EstadosForm :
            editar_reservacion(r, h, fe, fs, e)
    \/ \E r \in ReservacionIds : eliminar_reservacion(r)

Spec == Init /\ [][Next]_vars

-----------------------------------------------------------------------------
(* The desk with the catalogue and the rate ledger changing under it: one stay
   (nights 1 to 2) asked for over and over, while prices and rates move *)

PreciosForm == {0, 15000}
FechasTasaForm == {1, 2, 3}
TasasForm == {4005}
ActivoForm == {"ausente", "on", ""}

NextPrecios ==
    \/ \E h \in HabitacionesForm : api_crear_reservacion(h, ValorIso(1), ValorIso(2), "confirmada")
    \/ \E h \in HabitacionesForm : crear_reservacion(h, ValorIso(1), ValorIso(2), "confirmada")
    \/ \E r \in ReservacionIds, h \in HabitacionesForm :
            editar_reservacion(r, h, ValorIso(1), ValorIso(2), "confirmada")
    \/ \E r \in ReservacionIds : eliminar_reservacion(r)
    \/ \E t \in TipoIds, usd \in PreciosForm : editar_tipo_habitacion(t, usd)
    \/ \E f \in FechasTasaForm, v \in TasasForm, a \in ActivoForm : crear_tasa(f, v, a)

SpecPrecios == Init /\ [][NextPrecios]_vars

-----------------------------------------------------------------------------
(* The sale composer: SpecVentas draws one sale form and posts it to an empty
   sales table, with the catalogue and the rate as installed *)

\* What the three item lists of a sale form can carry; a list shorter than
\* item_tipo leaves the last items without an id (read as 0, which no
\* catalogue row has) or without a quantity (read as 1)
TiposItemForm == {"plan", "producto", "PLAN ", "habitacion"}
IdsItemForm == {Entero(1), Entero(2), NoEntero}
CantidadesForm == {Entero(0), Entero(1), Entero(2), NoEntero}
ImpuestosForm == {0, 6000, 5999}

Listas(S) == UNION {[1..n -> S] : n \in 0..MaxItems}

InitVentas ==
    /\ tipos = TiposIniciales
    /\ tasas = {TasaInicial}
    /\ nextTasaId = 2
    /\ reservaciones = <<>>
    /\ nextResId = 1
    /\ ultimaOp = SinOp
    /\ consulta = SinConsulta
    /\ peticiones = [w \in Workers |-> SinPeticion]
    /\ planes = PlanesIniciales
    /\ productos = ProductosIniciales
    /\ ventas = <<>>
    /\ nextVentaId = 1
    /\ \E ts \in Listas(TiposItemForm), is \in Listas(IdsItemForm),
          cs \in Listas(CantidadesForm), imp \in ImpuestosForm :
            pedido = [item_tipo |-> ts, item_id |-> is, item_cantidad |-> cs,
                      impuesto_usd |-> imp, res |-> "pendiente", id |-> SinId,
                      tipo_venta |-> "ninguno"]

NextVentas == pedido.res = "pendiente" /\ crear_venta(pedido)

SpecVentas == InitVentas /\ [][NextVentas]_vars

-----------------------------------------------------------------------------
(* One sale and its lines: the composer, the JSON route and the
   /ventas-detalle routes *)

FormaMixta == [item_tipo |-> <<"plan", "producto">>, item_id |-> <<Entero(1), Entero(1)>>,
               item_cantidad |-> <<Entero(1), Entero(2)>>, impuesto_usd |-> 6000,
               res |-> "pendiente", id |-> SinId, tipo_venta |-> "ninguno"]

FormaRestaurante == [item_tipo |-> <<"producto">>, item_id |-> <<Entero(1)>>,
                     item_cantidad |-> <<Entero(1)>>, impuesto_usd |-> 0,
                     res |-> "pendiente", id |-> SinId, tipo_venta |-> "ninguno"]

\* A form whose only line names no plan and no product
FormaFiltrada == [item_tipo |-> <<"habitacion">>, item_id |-> <<Entero(1)>>,
                  item_cantidad |-> <<Entero(1)>>, impuesto_usd |-> 0,
                  res |-> "pendiente", id |-> SinId, tipo_venta |-> "ninguno"]

\* A form with no lines
FormaVacia == [item_tipo |-> <<>>, item_id |-> <<>>, item_cantidad |-> <<>>, impuesto_usd |-> 0,
               res |-> "pendiente", id |-> SinId, tipo_venta |-> "ninguno"]

\* JSON items: product 1 and/or plan 1 or none, a quantity, the catalogue
\* price of product 1 or another one
ItemsApiForm ==
    [producto_restaurante_id : {SinId, 1}, plan_turistico_id : {SinId, 1},
     cantidad : {Entero(2), Entero(-1), NoEntero}, precio_unitario_usd : {1034, 999}]

\* A product line without its quantity, at the catalogue price
ItemSinCantidad == [producto_restaurante_id |-> 1, plan_turistico_id |-> SinId,
                    cantidad |-> Entero(0), precio_unitario_usd |-> 1034]

\* "items" of the JSON body: missing or empty, one item, or two items
ListasApiForm ==
    {<<>>} \cup {<<i>> : i \in ItemsApiForm} \cup {<<ItemSinCantidad, ItemSinCantidad>>}

VentasDetalleForm == {1, 2}
IdsDetalleForm == {SinId, 1}
CantidadesDetalleForm == {Entero(2), Entero(-1)}

NextDetalles ==
    \/ \E form \in {FormaMixta, FormaFiltrada, FormaVacia} : crear_venta(form)
    \/ \E form \in {FormaRestaurante, FormaFiltrada, FormaVacia} : editar_venta(1, form)
    \/ eliminar_venta(1)
    \/ \E items \in ListasApiForm : api_crear_venta("restaurante", items, 0)
    \/ \E v \in VentasDetalleForm, prod \in IdsDetalleForm, plan \in IdsDetalleForm,
          c \in CantidadesDetalleForm :
            crear_venta_detalle(v, prod, plan, c, 1034, 2068)
    \/ \E k \in 1..MaxLineas, v \in VentasDetalleForm, prod \in IdsDetalleForm,
          plan \in IdsDetalleForm, c \in CantidadesDetalleForm :
            editar_venta_detalle(1, k, v, prod, plan, c, 1034, 2068)
    \/ \E k \in 1..MaxLineas : eliminar_venta_detalle(1, k)

SpecDetalles == Init /\ [][NextDetalles]_vars

-----------------------------------------------------------------------------
(* Reservation requests that fail: bad dates, a taken room, a room that does
   not exist, a room type without price, no rate *)

HabitacionesFallo == {1, 3}
FechasFallo == {ValorIso(1), ValorIso(2), ValorTexto}

NextFallos ==
    \/ \E h \in HabitacionesFallo, fe \in FechasFallo, fs \in FechasFallo :
            api_crear_reservacion(h, fe, fs, "confirmada")
    \/ \E h \in HabitacionesFallo, fe \in FechasFallo, fs \in FechasFallo :
            crear_reservacion(h, fe, fs, "confirmada")
    \/ \E r \in ReservacionIds, h \in HabitacionesFallo, fe \in FechasFallo, fs \in FechasFallo,
          e \in EstadosForm :
            editar_reservacion(r, h, fe, fs, e)
    \/ \E usd \in PreciosForm : editar_tipo_habitacion(1, usd)
    \/ eliminar_tasa(1)
    \/ crear_tasa(3, 4005, "on")

SpecFallos == Init /\ [][NextFallos]_vars

-----------------------------------------------------------------------------
(* A ledger that loses its only active rate, under every route that writes
   a price *)

NextSinTasa ==
    \/ eliminar_tasa(1)
    \/ editar_tasa(1, 2, 3657, "")
    \/ crear_tipo_habitacion(15000)
    \/ editar_tipo_habitacion(1, 10990)
    \/ crear_plan_turistico(60000, "on")
    \/ editar_plan_turistico(1, 50000, "on")
    \/ crear_producto_restaurante(5000, "on")
    \/ editar_producto_restaurante(1, 10340, "on")
    \/ api_crear_reservacion(1, ValorIso(1), ValorIso(2), "confirmada")
    \/ crear_reservacion(1, ValorIso(1), ValorIso(2), "confirmada")
    \/ editar_reservacion(1, 1, ValorIso(2), ValorIso(3), "confirmada")
    \/ api_crear_venta("restaurante", <<ItemSinCantidad>>, 0)
    \/ crear_venta(FormaMixta)
    \/ editar_venta(1, FormaRestaurante)
    \/ crear_venta_detalle(1, 1, SinId, Entero(2), 1034, 2068)
    \/ editar_venta_detalle(1, 1, 1, 1, SinId, Entero(2), 1034, 2068)
    \/ actualizar_precios_con_tasa

SpecSinTasa == Init /\ [][NextSinTasa]_vars

-----------------------------------------------------------------------------
(* Prices under a changing rate: catalogue edits, one stay, one sale, a second
   rate and the bulk recompute *)

NextRecalculo ==
    \/ crear_reservacion(1, ValorIso(1), ValorIso(2), "confirmada")
    \/ editar_reservacion(1, 1, ValorIso(1), ValorIso(2), "confirmada")
    \/ editar_tipo_habitacion(1, 15000)
    \/ editar_plan_turistico(1, 60000, "on")
    \/ editar_producto_restaurante(1, 10340, "on")
    \/ crear_venta(FormaMixta)
    \/ editar_venta(1, FormaRestaurante)
    \/ crear_tasa(3, 4005, "on")
    \/ \E t \in TasaIds : eliminar_tasa(t)
    \/ actualizar_precios_con_tasa

SpecRecalculo == Init /\ [][NextRecalculo]_vars

-----------------------------------------------------------------------------
(* The catalogue alone: prices typed with two or three decimals, the rate
   ledger moving, and the bulk recompute *)

PreciosCatalogoForm == {10990, 10999}

NextCatalogo ==
    \/ \E valor \in PreciosCatalogoForm : editar_tipo_habitacion(1, valor)
    \/ \E valor \in PreciosCatalogoForm : crear_plan_turistico(valor, "on")
    \/ editar_producto_restaurante(1, 10340, "on")
    \/ crear_tasa(3, 4005, "on")
    \/ \E t \in TasaIds : eliminar_tasa(t)
    \/ actualizar_precios_con_tasa

SpecCatalogo == Init /\ [][NextCatalogo]_vars

-----------------------------------------------------------------------------
(* The rate ledger on its own: rates are registered, edited, deleted and
   the current one is asked for *)

NextTasas ==
    \/ \E f \in FechasTasaForm, v \in TasasForm, a \in ActivoForm : crear_tasa(f, v, a)
    \/ \E t \in TasaIds, f \in FechasTasaForm, v \in TasasForm, a \in ActivoForm :
            editar_tasa(t, f, v, a)
    \/ \E t \in TasaIds : eliminar_tasa(t)
    \/ api_tasa_actual

SpecTasas == Init /\ [][NextTasas]_vars

-----------------------------------------------------------------------------
(* Two workers serving POST /api/reservaciones at the same time.  Each request
   runs in its own database session: everything up to the availability check
   only reads, the insert and its commit come after, and nothing in between
   holds a lock or is covered by a constraint of the table *)

\* Lines 755-786: the validations and the availability check, against the
\* rows committed so far; the price and the rate read here are the ones the
\* insert will use
Verificar(w, habitacion_id, fecha_entrada, fecha_salida, estado) ==
    /\ peticiones[w].pc = "libre"
    /\ LET res == RespuestaApiCrear(habitacion_id, fecha_entrada, fecha_salida)
       IN  peticiones' = [peticiones EXCEPT ![w] =
                [pc |-> IF res = "ok" THEN "verificada" ELSE "rechazada",
                 habitacion_id |-> habitacion_id,
                 fecha_entrada |-> fecha_entrada,
                 fecha_salida |-> fecha_salida,
                 estado |-> estado,
                 precio_por_noche_usd |-> IF res = "ok" THEN PrecioTipoUsd(habitacion_id) ELSE 0,
                 tasa_bs_por_usd |-> IF res = "ok" THEN _obtener_tasa_actual.tasa_bs_por_usd ELSE 0,
                 id |-> SinId]]
    /\ UNCHANGED <<tipos, tasas, nextTasaId, reservaciones, nextResId, ultimaOp, consulta, ventasVars>>

\* Lines 788-803: the insert and its commit
Confirmar(w) ==
    /\ peticiones[w].pc = "verificada"
    /\ nextResId \in ReservacionIds
    /\ LET p == peticiones[w]
       IN  reservaciones' = Insertar(reservaciones, nextResId,
                Reservacion(p.habitacion_id, p.fecha_entrada, p.fecha_salida, p.estado,
                            p.precio_por_noche_usd,
                            PrecioBs(p.precio_por_noche_usd, p.tasa_bs_por_usd)))
    /\ nextResId' = nextResId + 1
    /\ peticiones' = [peticiones EXCEPT ![w].pc = "hecha", ![w].id = nextResId]
    /\ UNCHANGED <<tipos, tasas, nextTasaId, ultimaOp, consulta, ventasVars>>

NextConc ==
    \/ \E w \in Workers, h \in HabitacionesForm, fe \in FechasForm, fs \in FechasForm :
            Verificar(w, h, fe, fs, "confirmada")
    \/ \E w \in Workers : Confirmar(w)

SpecConc == Init /\ [][NextConc]_vars

-----------------------------------------------------------------------------
(* POST /tasas/actualizar-precios served by a worker while other requests
   commit.  The request runs in its own database session: the loops assign
   the new Bs amounts to the rows loaded in the session, the single
   db.session.commit() of line 629 publishes them, and a request that ends
   before that line leaves its session to be rolled back *)

\* The session of a request that has read the rate and loaded no table yet
SesionRecalculo(tasa_actual) ==
    [pc |-> "recalculando", paso |-> 0, tasa_id |-> tasa_actual.id,
     tasa_bs_por_usd |-> tasa_actual.tasa_bs_por_usd,
     tipos |-> <<>>, planes |-> <<>>, productos |-> <<>>, reservaciones |-> <<>>, ventas |-> <<>>]

\* Loops of the handler: room types, plans, products, reservations, sales with
\* their lines
PasosRecalculo == 5

\* Lines 585-591: the current rate is read once; without one the request ends
actualizar_precios_leer_tasa(w) ==
    /\ peticiones[w].pc = "libre"
    /\ LET tasa_actual == _obtener_tasa_actual
       IN  IF tasa_actual = SinTasa
           THEN /\ ultimaOp' = [SinOp EXCEPT !.op = "actualizar_precios", !.res = "sin_tasa"]
                /\ UNCHANGED peticiones
           ELSE /\ peticiones' = [peticiones EXCEPT ![w] = SesionRecalculo(tasa_actual)]
                /\ UNCHANGED ultimaOp
    /\ UNCHANGED <<tipos, tasas, nextTasaId, reservaciones, nextResId, consulta, ventasVars>>

\* The rows of one table as the loop leaves them in the session
TablaRecalculada(paso, tasa_valor) ==
    CASE paso = 1 -> [t \in DOMAIN tipos |-> [tipos[t] EXCEPT !.precio_por_noche_bs =
                        Recalculo(tipos[t].precio_por_noche_usd, tipos[t].precio_por_noche_bs, tasa_valor)]]
      [] paso = 2 -> [i \in DOMAIN planes |-> [planes[i] EXCEPT !.precio_bs =
                        Recalculo(planes[i].precio_usd, planes[i].precio_bs, tasa_valor)]]
      [] paso = 3 -> [i \in DOMAIN productos |-> [productos[i] EXCEPT !.precio_unitario_bs =
                        Recalculo(productos[i].precio_unitario_usd, productos[i].precio_unitario_bs, tasa_valor)]]
      [] paso = 4 -> [i \in DOMAIN reservaciones |->
                        [reservaciones[i] EXCEPT !.precio_por_noche_bs =
                            Recalculo(reservaciones[i].precio_por_noche_usd,
                                      reservaciones[i].precio_por_noche_bs, tasa_valor)]]
      [] paso = 5 -> [i \in DOMAIN ventas |-> VentaRecalculada(ventas[i], tasa_valor)]

\* One loop that also publishes what it assigned
actualizar_precios_recorrer_Publicando(w) ==
    /\ peticiones[w].pc = "recalculando"
    /\ peticiones[w].paso < PasosRecalculo
    /\ LET paso == peticiones[w].paso + 1
           tabla == TablaRecalculada(paso, peticiones[w].tasa_bs_por_usd)
       IN  /\ peticiones' = [peticiones EXCEPT ![w] =
                    CASE paso = 1 -> [peticiones[w] EXCEPT !.paso = paso, !.tipos = tabla]
                      [] paso = 2 -> [peticiones[w] EXCEPT !.paso = paso, !.planes = tabla]
                      [] paso = 3 -> [peticiones[w] EXCEPT !.paso = paso, !.productos = tabla]
                      [] paso = 4 -> [peticiones[w] EXCEPT !.paso = paso, !.reservaciones = tabla]
                      [] paso = 5 -> [peticiones[w] EXCEPT !.paso = paso, !.ventas = tabla]]
           /\ tipos' = IF paso = 1 THEN tabla ELSE tipos
           /\ planes' = IF paso = 2 THEN tabla ELSE planes
           /\ productos' = IF paso = 3 THEN tabla ELSE productos
           /\ reservaciones' = IF paso = 4 THEN tabla ELSE reservaciones
           /\ ventas' = IF paso = 5 THEN tabla ELSE ventas
    /\ UNCHANGED <<tasas, nextTasaId, nextResId, ultimaOp, consulta, nextVentaId, pedido>>

\* Lines 593-627, one loop at a time: the table is loaded as committed so far
\* and each row's Bs amounts are assigned in the session; nothing is published
actualizar_precios_recorrer(w) ==
    /\ peticiones[w].pc = "recalculando"
    /\ peticiones[w].paso < PasosRecalculo
    /\ LET paso == peticiones[w].paso + 1
           tabla == TablaRecalculada(paso, peticiones[w].tasa_bs_por_usd)
       IN  peticiones' = [peticiones EXCEPT ![w] =
                CASE paso = 1 -> [peticiones[w] EXCEPT !.paso = paso, !.tipos = tabla]
                  [] paso = 2 -> [peticiones[w] EXCEPT !.paso = paso, !.planes = tabla]
                  [] paso = 3 -> [peticiones[w] EXCEPT !.paso = paso, !.productos = tabla]
                  [] paso = 4 -> [peticiones[w] EXCEPT !.paso = paso, !.reservaciones = tabla]
                  [] paso = 5 -> [peticiones[w] EXCEPT !.paso = paso, !.ventas = tabla]]
    /\ UNCHANGED <<tipos, tasas, nextTasaId, reservaciones, nextResId, ultimaOp, consulta, ventasVars>>

\* The Bs amounts of a sale and of its lines as the session holds them, put on
\* the committed row
VentaConBs(venta, en_sesion) ==
    [venta EXCEPT
        !.subtotal_bs = en_sesion.subtotal_bs,
        !.impuesto_bs = en_sesion.impuesto_bs,
        !.total_bs = en_sesion.total_bs,
        !.detalles = [k \in DOMAIN venta.detalles |->
            IF k \in DOMAIN en_sesion.detalles
            THEN [venta.detalles[k] EXCEPT
                    !.precio_unitario_bs = en_sesion.detalles[k].precio_unitario_bs,
                    !.total_bs = en_sesion.detalles[k].total_bs]
            ELSE venta.detalles[k]]]

\* Line 629: db.session.commit() writes the Bs amounts assigned in the session
\* to the rows it loaded, all in one transaction; rows other requests have
\* inserted since are not touched
actualizar_precios_commit(w) ==
    /\ peticiones[w].pc = "recalculando"
    /\ peticiones[w].paso = PasosRecalculo
    /\ LET s == peticiones[w]
       IN  /\ tipos' = [t \in DOMAIN tipos |->
                    IF t \in DOMAIN s.tipos
                    THEN [tipos[t] EXCEPT !.precio_por_noche_bs = s.tipos[t].precio_por_noche_bs]
                    ELSE tipos[t]]
           /\ planes' = [i \in DOMAIN planes |->
                    IF i \in DOMAIN s.planes
                    THEN [planes[i] EXCEPT !.precio_bs = s.planes[i].precio_bs]
                    ELSE planes[i]]
           /\ productos' = [i \in DOMAIN productos |->
                    IF i \in DOMAIN s.productos
                    THEN [productos[i] EXCEPT !.precio_unitario_bs = s.productos[i].precio_unitario_bs]
                    ELSE productos[i]]
           /\ reservaciones' = [i \in DOMAIN reservaciones |->
                    IF i \in DOMAIN s.reservaciones
                    THEN [reservaciones[i] EXCEPT
                            !.precio_por_noche_bs = s.reservaciones[i].precio_por_noche_bs]
                    ELSE reservaciones[i]]
           /\ ventas' = [i \in DOMAIN ventas |->
                    IF i \in DOMAIN s.ventas THEN VentaConBs(ventas[i], s.ventas[i]) ELSE ventas[i]]
           /\ ultimaOp' = [SinOp EXCEPT !.op = "actualizar_precios", !.id = s.tasa_id, !.res = "ok",
                    !.seguida = /\ ultimaOp.op = "actualizar_precios"
                                /\ ultimaOp.res = "ok"
                                /\ ultimaOp.id = s.tasa_id]
    /\ peticiones' = [peticiones EXCEPT ![w] = SinPeticion]
    /\ UNCHANGED <<tasas, nextTasaId, nextResId, consulta, nextVentaId, pedido>>

\* The request ends before line 629 (the worker is stopped, the connection is
\* lost, an assignment raises): the session is rolled back with the request
actualizar_precios_interrumpida(w) ==
    /\ peticiones[w].pc = "recalculando"
    /\ peticiones' = [peticiones EXCEPT ![w] = SinPeticion]
    /\ ultimaOp' = [SinOp EXCEPT !.op = "actualizar_precios", !.id = peticiones[w].tasa_id,
                        !.res = "interrumpida"]
    /\ UNCHANGED <<tipos, tasas, nextTasaId, reservaciones, nextResId, consulta, ventasVars>>

NextLote ==
    \/ \E w \in Workers : actualizar_precios_leer_tasa(w)
    \/ \E w \in Workers : actualizar_precios_recorrer(w)
    \/ \E w \in Workers : actualizar_precios_commit(w)
    \/ \E w \in Workers : actualizar_precios_interrumpida(w)
    \/ crear_tasa(3, 4005, "on")
    \/ crear_reservacion(1, ValorIso(1), ValorIso(2), "confirmada")
    \/ crear_venta(FormaMixta)

SpecLote == Init /\ [][NextLote]_vars

-----------------------------------------------------------------------------
(* POST /ventas/nueva served by a worker while rates are registered.  The
   handler reads the current rate at line 1210, before it looks at the form;
   the lines, the totals and the commit come after, and a rate committed in
   between is not seen by the request *)

\* Line 1210 and lines 1215-1217: the rate is read once; without one the
\* request ends
crear_venta_leer_tasa(w, form) ==
    /\ peticiones[w].pc = "libre"
    /\ nextVentaId \in VentaIds
    /\ LET tasa_actual == _obtener_tasa_actual
       IN  IF tasa_actual = SinTasa
           THEN /\ pedido' = [form EXCEPT !.res = "sin_tasa"]
                /\ ultimaOp' = [SinOp EXCEPT !.op = "crear_venta", !.res = "sin_tasa"]
                /\ UNCHANGED peticiones
           ELSE /\ peticiones' = [peticiones EXCEPT ![w] =
                        [pc |-> "vendiendo", tasa_bs_por_usd |-> tasa_actual.tasa_bs_por_usd,
                         form |-> form]]
                /\ UNCHANGED <<pedido, ultimaOp>>
    /\ UNCHANGED <<tipos, tasas, nextTasaId, reservaciones, nextResId, consulta,
                   planes, productos, ventas, nextVentaId>>

\* Lines 1219-1261: lines and totals are computed with the rate read at line
\* 1210 and the catalogue as it is now, and the sale is committed
crear_venta_commit(w) ==
    /\ peticiones[w].pc = "vendiendo"
    /\ LET form == peticiones[w].form
           tasa_valor == peticiones[w].tasa_bs_por_usd
           compuesta == _procesar_items_venta(form, tasa_valor)
           res == IF compuesta.detalles = <<>> THEN "sin_items" ELSE "ok"
       IN  /\ res = "ok" => nextVentaId \in VentaIds
           /\ IF res = "ok"
              THEN /\ ventas' = Insertar(ventas, nextVentaId, Venta(compuesta, form.impuesto_usd, tasa_valor))
                   /\ nextVentaId' = nextVentaId + 1
              ELSE UNCHANGED <<ventas, nextVentaId>>
           /\ pedido' = [form EXCEPT !.res = res, !.id = IF res = "ok" THEN nextVentaId ELSE SinId,
                                     !.tipo_venta = compuesta.tipo_venta]
           /\ ultimaOp' = [SinOp EXCEPT !.op = "crear_venta", !.res = res,
                                        !.id = IF res = "ok" THEN nextVentaId ELSE SinId]
    /\ peticiones' = [peticiones EXCEPT ![w] = SinPeticion]
    /\ UNCHANGED <<tipos, tasas, nextTasaId, reservaciones, nextResId, consulta, planes, productos>>

\* A mixed sale with a tax typed with three decimals
FormaMixtaTresDecimales == [FormaMixta EXCEPT !.impuesto_usd = 5999]

FormasUnaTasa == {FormaMixta, FormaMixtaTresDecimales, FormaFiltrada}

NextUnaTasa ==
    \/ \E w \in Workers, form \in FormasUnaTasa : crear_venta_leer_tasa(w, form)
    \/ \E w \in Workers : crear_venta_commit(w)
    \/ \E w \in Workers : Verificar(w, 1, ValorIso(1), ValorIso(2), "confirmada")
    \/ \E w \in Workers : Confirmar(w)
    \/ \E f \in FechasTasaForm : crear_tasa(f, 4005, "on")
    \/ eliminar_venta(1)

SpecUnaTasa == Init /\ [][NextUnaTasa]_vars

-----------------------------------------------------------------------------
(* The availability helper called on its own: SpecDisp draws a table the desk
   can have built and the arguments of one call, and the action makes the call *)

\* The rows the desk can write with the initial catalogue and rate
FilasPosibles ==
    {Reservacion(h, ValorIso(fe), ValorIso(fs), e,
                 TiposIniciales[habitaciones[h].tipo_habitacion_id].precio_por_noche_usd,
                 TiposIniciales[habitaciones[h].tipo_habitacion_id].precio_por_noche_bs) :
        h \in HabitacionesForm, fe \in Dias, fs \in Dias, e \in EstadosForm}

\* The tables the desk can have built: creating the rows in the order of their
\* ids, and deleting the others, reaches each one
TablasPosibles ==
    {t \in UNION {[D -> FilasPosibles] : D \in SUBSET ReservacionIds} :
        /\ \A i \in DOMAIN t : t[i].fecha_entrada < t[i].fecha_salida
        /\ \A i, j \in DOMAIN t :
                (i # j /\ t[i].habitacion_id = t[j].habitacion_id
                       /\ t[i].estado # "cancelada" /\ t[j].estado # "cancelada")
                => (t[i].fecha_salida <= t[j].fecha_entrada \/ t[j].fecha_salida <= t[i].fecha_entrada)}

\* Arguments of a call: any room id, any field value, with or without an id to exclude
HabitacionesConsulta == {1, 2, 3}

ConsultasPosibles ==
    {[habitacion_id |-> h, fecha_entrada |-> fe, fecha_salida |-> fs,
      excluir_reservacion_id |-> x, res |-> "pendiente"] :
        h \in HabitacionesConsulta, fe \in ValoresFecha, fs \in ValoresFecha,
        x \in {SinId} \cup ReservacionIds}

InitDisp ==
    /\ tipos = TiposIniciales
    /\ tasas = {TasaInicial}
    /\ nextTasaId = 2
    /\ reservaciones \in TablasPosibles
    /\ nextResId = IF DOMAIN reservaciones = {} THEN 1
                   ELSE 1 + (CHOOSE i \in DOMAIN reservaciones : \A j \in DOMAIN reservaciones : j <= i)
    /\ ultimaOp = SinOp
    /\ consulta \in ConsultasPosibles
    /\ peticiones = [w \in Workers |-> SinPeticion]
    /\ planes = PlanesIniciales
    /\ productos = ProductosIniciales
    /\ ventas = <<>>
    /\ nextVentaId = 1
    /\ pedido = SinPedido

ConsultarDisponibilidad ==
    /\ consulta.res = "pendiente"
    /\ consulta' = [consulta EXCEPT !.res =
            IF _habitacion_disponible(consulta.habitacion_id, consulta.fecha_entrada,
                                      consulta.fecha_salida, consulta.excluir_reservacion_id)
            THEN "disponible" ELSE "no_disponible"]
    /\ UNCHANGED <<tipos, tasas, nextTasaId, reservaciones, nextResId, ultimaOp, peticiones, ventasVars>>

NextDisp == ConsultarDisponibilidad

SpecDisp == InitDisp /\ [][NextDisp]_vars

-----------------------------------------------------------------------------
(* Properties of the reservation desk (Spec) *)

Activa(i) == reservaciones[i].estado # "cancelada"

\* Two stays share at least one night
ComparteNoche(e1, s1, e2, s2) ==
    \E n \in Dias : e1 <= n /\ n < s1 /\ e2 <= n /\ n < s2

\* C1. Room exclusivity: whatever sequence of create (form or JSON), edit and
\* delete requests is handled one at a time, no two non-cancelled reservations
\* of the same room have overlapping half-open date ranges.
C1_Exclusividad ==
    \A i, j \in DOMAIN reservaciones :
        (/\ i # j
         /\ reservaciones[i].habitacion_id = reservaciones[j].habitacion_id
         /\ Activa(i) /\ Activa(j))
        => ~(/\ reservaciones[i].fecha_entrada < reservaciones[j].fecha_salida
             /\ reservaciones[j].fecha_entrada < reservaciones[i].fecha_salida)

\* Two non-cancelled reservations share a room, and a request for that room
\* has just been refused as not available.
C1_Witness ==
    /\ ultimaOp.res = "no_disponible"
    /\ \E i, j \in DOMAIN reservaciones :
            /\ i # j
            /\ Activa(i) /\ Activa(j)
            /\ reservaciones[i].habitacion_id = ultimaOp.habitacion_id
            /\ reservaciones[j].habitacion_id = ultimaOp.habitacion_id

\* Every table the desk builds is one of those SpecDisp starts from
TablaEsPosible == reservaciones \in TablasPosibles

\* C5. A cancelled reservation never blocks a booking: a creation request is
\* refused as not available only when a non-cancelled reservation of the room
\* asked for shares a night with the range asked for.
C5_CanceladaNoBloquea ==
    (ultimaOp.op \in {"crear", "api_crear"} /\ ultimaOp.res = "no_disponible")
    => \E i \in DOMAIN reservaciones :
            /\ Activa(i)
            /\ reservaciones[i].habitacion_id = ultimaOp.habitacion_id
            /\ ComparteNoche(reservaciones[i].fecha_entrada, reservaciones[i].fecha_salida,
                             ultimaOp.fecha_entrada, ultimaOp.fecha_salida)

\* A reservation has just been created over the nights of a cancelled
\* reservation of the same room.
C5_Witness ==
    /\ ultimaOp.op \in {"crear", "api_crear"}
    /\ ultimaOp.res = "ok"
    /\ ultimaOp.id \in DOMAIN reservaciones
    /\ Activa(ultimaOp.id)
    /\ \E i \in DOMAIN reservaciones :
            /\ i # ultimaOp.id
            /\ ~Activa(i)
            /\ reservaciones[i].habitacion_id = ultimaOp.habitacion_id
            /\ ComparteNoche(reservaciones[i].fecha_entrada, reservaciones[i].fecha_salida,
                             ultimaOp.fecha_entrada, ultimaOp.fecha_salida)

\* C6. An edit is never rejected against itself: an edit that keeps the room
\* is refused as not available only when another non-cancelled reservation of
\* that room shares a night with the range asked for.
C6_EdicionNoChocaConsigo ==
    (/\ ultimaOp.op = "editar"
     /\ ultimaOp.res = "no_disponible"
     /\ reservaciones[ultimaOp.id].habitacion_id = ultimaOp.habitacion_id)
    => \E i \in DOMAIN reservaciones :
            /\ i # ultimaOp.id
            /\ Activa(i)
            /\ reservaciones[i].habitacion_id = ultimaOp.habitacion_id
            /\ ComparteNoche(reservaciones[i].fecha_entrada, reservaciones[i].fecha_salida,
                             ultimaOp.fecha_entrada, ultimaOp.fecha_salida)

\* An edit of a non-cancelled reservation has just been accepted whose range
\* shares a night with the range the row held before, in the same room, while
\* another non-cancelled reservation holds the room on other nights.
C6_Witness ==
    /\ ultimaOp.op = "editar"
    /\ ultimaOp.res = "ok"
    /\ ultimaOp.propia
    /\ Activa(ultimaOp.id)
    /\ \E i \in DOMAIN reservaciones :
            /\ i # ultimaOp.id
            /\ Activa(i)
            /\ reservaciones[i].habitacion_id = ultimaOp.habitacion_id

\* C7. Every persisted reservation has two calendar dates with
\* check_in < check_out.
C7_RangoValido ==
    \A i \in DOMAIN reservaciones :
        /\ reservaciones[i].fecha_entrada \in Dias
        /\ reservaciones[i].fecha_salida \in Dias
        /\ reservaciones[i].fecha_entrada < reservaciones[i].fecha_salida

\* A request with check_in >= check_out has just been refused while a
\* reservation is on record.
C7_Witness ==
    /\ ultimaOp.res = "rango_invalido"
    /\ DOMAIN reservaciones # {}

\* The moves the reservation lifecycle allows
Permitida(antes, despues) ==
    \/ antes = despues
    \/ antes = "confirmada" /\ despues = "check-in"
    \/ antes = "check-in" /\ despues = "check-out"
    \/ antes \in {"confirmada", "check-in"} /\ despues = "cancelada"

\* C8. A reservation's status only moves confirmada -> check-in -> check-out,
\* or to cancelada from a non-terminal status.
C8_CicloDeVida ==
    [][\A i \in DOMAIN reservaciones \cap DOMAIN reservaciones' :
            Permitida(reservaciones[i].estado, reservaciones'[i].estado)]_vars

-----------------------------------------------------------------------------
(* Properties of concurrent creation (SpecConc) *)

\* C2. Of two concurrent creation requests for the same room with
\* overlapping date ranges at most one is persisted, whatever the
\* interleaving of their availability checks and inserts.
C2_ALoSumoUna ==
    \A w1, w2 \in Workers :
        (/\ w1 # w2
         /\ peticiones[w1].habitacion_id = peticiones[w2].habitacion_id
         /\ peticiones[w1].fecha_entrada.t = "iso" /\ peticiones[w1].fecha_salida.t = "iso"
         /\ peticiones[w2].fecha_entrada.t = "iso" /\ peticiones[w2].fecha_salida.t = "iso"
         /\ peticiones[w1].fecha_entrada.d < peticiones[w2].fecha_salida.d
         /\ peticiones[w2].fecha_entrada.d < peticiones[w1].fecha_salida.d)
        => ~(/\ peticiones[w1].pc = "hecha" /\ peticiones[w1].id \in DOMAIN reservaciones
             /\ peticiones[w2].pc = "hecha" /\ peticiones[w2].id \in DOMAIN reservaciones)

-----------------------------------------------------------------------------
(* Properties of the rate ledger (SpecTasas) *)

\* C12. current_rate returns, among the records flagged active, the one
\* with the greatest date (greatest id among equal dates), and none when no
\* record is active; an inactive record is never returned.
C12_TasaActual ==
    ultimaOp.op = "api_tasa_actual" =>
        IF \A t \in tasas : ~t.activo
        THEN ultimaOp.res = "sin_tasa"
        ELSE /\ ultimaOp.res = "ok"
             /\ \E r \in tasas :
                    /\ r.id = ultimaOp.id
                    /\ r.activo
                    /\ \A u \in tasas :
                            u.activo => (u.fecha < r.fecha \/ (u.fecha = r.fecha /\ u.id <= r.id))

\* The rate returned was registered before an active rate of an earlier date,
\* while the ledger also holds an inactive rate of a later date.
C12_Witness ==
    /\ ultimaOp.op = "api_tasa_actual"
    /\ ultimaOp.res = "ok"
    /\ \E r \in tasas :
            /\ r.id = ultimaOp.id
            /\ \E u \in tasas : u.activo /\ u.id > r.id /\ u.fecha < r.fecha
            /\ \E v \in tasas : ~v.activo /\ v.fecha > r.fecha

\* C13. Registering a rate for a date that already has a record fails and
\* leaves the ledger unchanged; otherwise it adds exactly one new record,
\* flagged active; the ledger then holds at most one record per date.
C13_RegistroUnico ==
    [][ultimaOp'.op = "crear_tasa" =>
            /\ \/ tasas' = tasas
               \/ \E r \in tasas' \ tasas : tasas' = tasas \cup {r} /\ r.activo
            /\ \A t \in tasas, n \in tasas' \ tasas : t.fecha # n.fecha
            /\ \A x, y \in tasas' : x.fecha = y.fecha => x = y]_vars

\* C14. The ledger is append-only: a record, once in the ledger, stays in it
\* with the same date, value and active flag.
C14_SoloAgrega ==
    [][\A t \in tasas : t \in tasas']_vars

-----------------------------------------------------------------------------
(* Properties of reservation pricing (SpecPrecios) *)

OpDeReservacion == ultimaOp.op \in {"crear", "api_crear", "editar"} /\ ultimaOp.res = "ok"

\* The USD price of the type of the room of the last request, in the catalogue
PrecioCatalogoUsd == tipos[habitaciones[ultimaOp.habitacion_id].tipo_habitacion_id].precio_por_noche_usd

\* C9. No reservation is created or re-priced from a room type whose nightly
\* USD price is <= 0: a create (JSON or form) or an edit for a room of such a
\* type fails, and no persisted reservation has a nightly USD price <= 0.
C9_SinPrecioRechazada ==
    /\ OpDeReservacion => PrecioCatalogoUsd > 0
    /\ \A i \in DOMAIN reservaciones : reservaciones[i].precio_por_noche_usd > 0

\* The active rate with the latest date (the latest id among equal dates), as
\* the rate ledger defines the current rate
TasaVigente ==
    LET activas == {t \in tasas : t.activo}
    IN  CHOOSE t \in activas :
            \A u \in activas : u.fecha < t.fecha \/ (u.fecha = t.fecha /\ u.id <= t.id)

\* C10 as stated. Right after a successful create or edit the reservation's
\* nightly USD price is its room type's USD price and its nightly Bs price is
\* exactly that price times the current active rate (prices and rates in
\* hundredths, so the exact product of two of them is in ten-thousandths).
C10_ProductoExacto ==
    OpDeReservacion =>
        /\ reservaciones[ultimaOp.id].precio_por_noche_usd = PrecioCatalogoUsd
        /\ reservaciones[ultimaOp.id].precio_por_noche_bs * 100
                = PrecioCatalogoUsd * TasaVigente.tasa_bs_por_usd

\* C10, amended. Right after a successful create or edit the reservation's
\* nightly USD price is its room type's USD price and its nightly Bs price is
\* that price times the current active rate rounded to the two decimals the
\* column stores, halves away from zero.
C10_PrecioInstantaneo ==
    OpDeReservacion =>
        /\ reservaciones[ultimaOp.id].precio_por_noche_usd = PrecioCatalogoUsd
        /\ LET producto == PrecioCatalogoUsd * TasaVigente.tasa_bs_por_usd
               bs == reservaciones[ultimaOp.id].precio_por_noche_bs
           IN  /\ 2 * (bs * 100 - producto) <= 100
               /\ 2 * (producto - bs * 100) < 100

\* A reservation has just been re-priced by an edit under a rate registered
\* after the initial one, from a catalogue price whose product with the rate
\* has more than two decimals.
C10_Witness ==
    /\ ultimaOp.op = "editar"
    /\ ultimaOp.res = "ok"
    /\ TasaVigente.id # TasaInicial.id
    /\ (PrecioCatalogoUsd * TasaVigente.tasa_bs_por_usd) % 100 # 0
    /\ PrecioCatalogoUsd > 0

-----------------------------------------------------------------------------
(* Properties of the availability helper (SpecDisp) *)

Respondida == consulta.res \in {"disponible", "no_disponible"}

\* C3. is_available returns false when either date is unparseable or
\* check_in >= check_out; otherwise it returns false exactly when some
\* reservation R of the room, not cancelled and not the excluded one, has
\* R.check_in < check_out and R.check_out > check_in.
C3_Disponible ==
    Respondida =>
        IF \/ consulta.fecha_entrada.t # "iso"
           \/ consulta.fecha_salida.t # "iso"
           \/ consulta.fecha_entrada.d >= consulta.fecha_salida.d
        THEN consulta.res = "no_disponible"
        ELSE (consulta.res = "no_disponible") <=>
                \E i \in DOMAIN reservaciones :
                    /\ reservaciones[i].habitacion_id = consulta.habitacion_id
                    /\ reservaciones[i].estado # "cancelada"
                    /\ (consulta.excluir_reservacion_id # SinId => i # consulta.excluir_reservacion_id)
                    /\ reservaciones[i].fecha_entrada < consulta.fecha_salida.d
                    /\ reservaciones[i].fecha_salida > consulta.fecha_entrada.d

\* The call answered "available" for a range that overlaps the excluded row,
\* a non-cancelled reservation of the room asked for.
C3_Witness ==
    /\ consulta.res = "disponible"
    /\ consulta.excluir_reservacion_id \in DOMAIN reservaciones
    /\ LET r == reservaciones[consulta.excluir_reservacion_id]
       IN  /\ r.estado # "cancelada"
           /\ r.habitacion_id = consulta.habitacion_id
           /\ r.fecha_entrada < consulta.fecha_salida.d
           /\ r.fecha_salida > consulta.fecha_entrada.d

\* C4. Back-to-back stays are bookable: a creation request (nothing excluded)
\* with a valid range is refused exactly when some non-cancelled reservation
\* of the room shares a night with it; a reservation that ends on the
\* arrival day or starts on the departure day does not refuse it.
C4_ContiguasPermitidas ==
    (/\ Respondida
     /\ consulta.excluir_reservacion_id = SinId
     /\ consulta.fecha_entrada.t = "iso"
     /\ consulta.fecha_salida.t = "iso"
     /\ consulta.fecha_entrada.d < consulta.fecha_salida.d)
    => ((consulta.res = "no_disponible") <=>
            \E i \in DOMAIN reservaciones :
                /\ reservaciones[i].habitacion_id = consulta.habitacion_id
                /\ reservaciones[i].estado # "cancelada"
                /\ ComparteNoche(reservaciones[i].fecha_entrada, reservaciones[i].fecha_salida,
                                 consulta.fecha_entrada.d, consulta.fecha_salida.d))

\* The call answered "available" for a range that starts the very day a
\* non-cancelled reservation of the room ends.
C4_Witness ==
    /\ consulta.res = "disponible"
    /\ consulta.excluir_reservacion_id = SinId
    /\ \E i \in DOMAIN reservaciones :
            /\ reservaciones[i].habitacion_id = consulta.habitacion_id
            /\ reservaciones[i].estado # "cancelada"
            /\ reservaciones[i].fecha_salida = consulta.fecha_entrada.d

-----------------------------------------------------------------------------
(* Properties of sale composition (SpecVentas) *)

Compuesta == pedido.res \in {"ok", "sin_items"}

\* The lines of the sale the last form produced (none when it was refused
\* for having no line)
LineasGuardadas == IF pedido.res = "ok" THEN ventas[pedido.id].detalles ELSE <<>>

NombraPlan(tipo) == tipo \in {"plan", "PLAN "}
NombraProducto(tipo) == tipo \in {"producto", " Producto"}

\* Request i of the last form is to be kept: it names plan or product, its
\* id is that of an active catalogue item of that type and its quantity is
\* >= 1; sin_cantidad says how a request that carries no quantity counts
SeConserva(i, sin_cantidad) ==
    /\ i <= Len(pedido.item_id)
    /\ pedido.item_id[i].t = "int"
    /\ \/ /\ NombraPlan(pedido.item_tipo[i])
          /\ pedido.item_id[i].n \in DOMAIN planes
          /\ planes[pedido.item_id[i].n].activo
       \/ /\ NombraProducto(pedido.item_tipo[i])
          /\ pedido.item_id[i].n \in DOMAIN productos
          /\ productos[pedido.item_id[i].n].activo
    /\ IF i <= Len(pedido.item_cantidad)
       THEN pedido.item_cantidad[i].t = "int" /\ pedido.item_cantidad[i].n >= 1
       ELSE sin_cantidad

\* The lines expected of the first n requests, in request order
RECURSIVE LineasEsperadas(_, _)
LineasEsperadas(n, sin_cantidad) ==
    IF n = 0 THEN <<>>
    ELSE IF SeConserva(n, sin_cantidad)
         THEN Append(LineasEsperadas(n - 1, sin_cantidad),
                     [plan |-> IF NombraPlan(pedido.item_tipo[n]) THEN pedido.item_id[n].n ELSE SinId,
                      producto |-> IF NombraPlan(pedido.item_tipo[n]) THEN SinId ELSE pedido.item_id[n].n,
                      cantidad |-> IF n <= Len(pedido.item_cantidad)
                                   THEN pedido.item_cantidad[n].n ELSE 1])
         ELSE LineasEsperadas(n - 1, sin_cantidad)

LineasComo(esperadas) ==
    /\ Len(LineasGuardadas) = Len(esperadas)
    /\ \A k \in 1..Len(esperadas) :
            /\ LineasGuardadas[k].plan_turistico_id = esperadas[k].plan
            /\ LineasGuardadas[k].producto_restaurante_id = esperadas[k].producto
            /\ LineasGuardadas[k].cantidad = esperadas[k].cantidad

\* C18 as stated. Composition keeps a request if and only if it names plan or
\* product, references an existing active item of that type and has a
\* quantity >= 1; the kept lines are those requests, in request order.
C18_SoloConCantidad ==
    Compuesta => LineasComo(LineasEsperadas(Len(pedido.item_tipo), FALSE))

\* C18, amended. As stated, except that a request that carries no quantity
\* (the quantity list is shorter than the type list) counts as quantity 1
\* and is kept when the rest holds.
C18_LineasConservadas ==
    Compuesta => LineasComo(LineasEsperadas(Len(pedido.item_tipo), TRUE))

\* A sale was composed of two requests of which only the second was kept,
\* the first naming a withdrawn item.
C18_Witness ==
    /\ pedido.res = "ok"
    /\ Len(pedido.item_tipo) = 2
    /\ Len(pedido.item_id) = 2
    /\ Len(pedido.item_cantidad) = 2
    /\ Len(LineasGuardadas) = 1
    /\ ~SeConserva(1, TRUE)
    /\ pedido.item_id[1] = Entero(2)
    /\ pedido.item_cantidad[1] = Entero(1)
    /\ NombraPlan(pedido.item_tipo[1]) \/ NombraProducto(pedido.item_tipo[1])

RECURSIVE SumaTotalUsd(_)
SumaTotalUsd(detalles) ==
    IF detalles = <<>> THEN 0 ELSE Head(detalles).total_usd + SumaTotalUsd(Tail(detalles))

\* amount_bs is amount_usd times the rate, exactly (in ten-thousandths)
Exacto(amount_usd, amount_bs) == amount_bs * 100 = amount_usd * TasaVigente.tasa_bs_por_usd

\* amount_bs is amount_usd times the rate rounded to two decimals, halves
\* away from zero (amounts here are never negative)
Redondeado(amount_usd, amount_bs) ==
    /\ 2 * (amount_bs * 100 - amount_usd * TasaVigente.tasa_bs_por_usd) <= 100
    /\ 2 * (amount_usd * TasaVigente.tasa_bs_por_usd - amount_bs * 100) < 100

\* C19. A composed sale has subtotal_usd = sum of its lines' total_usd,
\* total_usd = subtotal_usd + tax_usd, and subtotal_bs, tax_bs and total_bs
\* each equal to their own USD counterpart times the current rate, to the
\* two decimals the columns store.
C19_Totales ==
    pedido.res = "ok" =>
        LET v == ventas[pedido.id]
        IN  /\ v.subtotal_usd = SumaTotalUsd(v.detalles)
            /\ v.total_usd = v.subtotal_usd + v.impuesto_usd
            /\ v.impuesto_usd = Numeric2DeForm(pedido.impuesto_usd)
            /\ Redondeado(v.subtotal_usd, v.subtotal_bs)
            /\ Redondeado(v.impuesto_usd, v.impuesto_bs)
            /\ Redondeado(v.total_usd, v.total_bs)

\* C20. A composed sale is "mixta" exactly when its kept lines hold a plan
\* and a product, "plan_turistico" exactly when they hold only plans, and
\* "restaurante" when they hold only products or no line was kept.
C20_TipoDeVenta ==
    Compuesta =>
        LET hay_plan == \E k \in 1..Len(LineasGuardadas) : LineasGuardadas[k].plan_turistico_id # SinId
            hay_producto == \E k \in 1..Len(LineasGuardadas) : LineasGuardadas[k].producto_restaurante_id # SinId
        IN  /\ pedido.tipo_venta = "mixta" <=> (hay_plan /\ hay_producto)
            /\ pedido.tipo_venta = "plan_turistico" <=> (hay_plan /\ ~hay_producto)
            /\ pedido.tipo_venta = "restaurante" <=> ~hay_plan
            /\ pedido.res = "ok" => ventas[pedido.id].tipo = pedido.tipo_venta

\* A sale was classified "restaurante" although its form also asked for a
\* plan, which was dropped for being withdrawn.
C20_Witness ==
    /\ pedido.res = "ok"
    /\ pedido.tipo_venta = "restaurante"
    /\ Len(pedido.item_tipo) = 2
    /\ Len(pedido.item_id) = 2
    /\ Len(pedido.item_cantidad) = 2
    /\ NombraPlan(pedido.item_tipo[1])
    /\ pedido.item_id[1] = Entero(2)
    /\ pedido.item_cantidad[1] = Entero(1)
    /\ Len(LineasGuardadas) = 1

-----------------------------------------------------------------------------
(* Properties of the bulk recompute *)

\* The prices a reservation and a sale carry
PreciosReservacion(r) == <<r.precio_por_noche_usd, r.precio_por_noche_bs>>
PreciosVenta(v) ==
    <<v.subtotal_usd, v.subtotal_bs, v.impuesto_usd, v.impuesto_bs, v.total_usd, v.total_bs,
      [k \in DOMAIN v.detalles |->
          <<v.detalles[k].precio_unitario_usd, v.detalles[k].precio_unitario_bs,
            v.detalles[k].total_usd, v.detalles[k].total_bs>>]>>

\* C11. Snapshot stability: the prices (USD and Bs) of a persisted reservation
\* or sale, lines included, change in no step other than a successful edit of
\* that same record, whatever catalogue edits or rate changes happen.
C11_InstantaneaEstable ==
    [][/\ \A i \in DOMAIN reservaciones \cap DOMAIN reservaciones' :
            PreciosReservacion(reservaciones'[i]) # PreciosReservacion(reservaciones[i])
                => ultimaOp'.op = "editar" /\ ultimaOp'.id = i /\ ultimaOp'.res = "ok"
       /\ \A i \in DOMAIN ventas \cap DOMAIN ventas' :
            PreciosVenta(ventas'[i]) # PreciosVenta(ventas[i])
                => ultimaOp'.op = "editar_venta" /\ ultimaOp'.id = i /\ ultimaOp'.res = "ok"]_vars

\* Every USD amount on file: catalogue, reservations, sales and their lines
CamposUsd ==
    <<[t \in DOMAIN tipos |-> tipos[t].precio_por_noche_usd],
      [i \in DOMAIN planes |-> planes[i].precio_usd],
      [i \in DOMAIN productos |-> productos[i].precio_unitario_usd],
      [i \in DOMAIN reservaciones |-> reservaciones[i].precio_por_noche_usd],
      [i \in DOMAIN ventas |->
          <<ventas[i].subtotal_usd, ventas[i].impuesto_usd, ventas[i].total_usd,
            [k \in DOMAIN ventas[i].detalles |->
                <<ventas[i].detalles[k].precio_unitario_usd, ventas[i].detalles[k].total_usd>>]>>]>>

\* Every Bs amount on file
CamposBs ==
    <<[t \in DOMAIN tipos |-> tipos[t].precio_por_noche_bs],
      [i \in DOMAIN planes |-> planes[i].precio_bs],
      [i \in DOMAIN productos |-> productos[i].precio_unitario_bs],
      [i \in DOMAIN reservaciones |-> reservaciones[i].precio_por_noche_bs],
      [i \in DOMAIN ventas |->
          <<ventas[i].subtotal_bs, ventas[i].impuesto_bs, ventas[i].total_bs,
            [k \in DOMAIN ventas[i].detalles |->
                <<ventas[i].detalles[k].precio_unitario_bs, ventas[i].detalles[k].total_bs>>]>>]>>

\* Every Bs amount on file stands in relation Rel to its USD counterpart
TodosLosBs(Rel(_, _)) ==
    /\ \A t \in DOMAIN tipos : Rel(tipos[t].precio_por_noche_usd, tipos[t].precio_por_noche_bs)
    /\ \A i \in DOMAIN planes : Rel(planes[i].precio_usd, planes[i].precio_bs)
    /\ \A i \in DOMAIN productos :
            Rel(productos[i].precio_unitario_usd, productos[i].precio_unitario_bs)
    /\ \A i \in DOMAIN reservaciones :
            Rel(reservaciones[i].precio_por_noche_usd, reservaciones[i].precio_por_noche_bs)
    /\ \A i \in DOMAIN ventas :
            /\ Rel(ventas[i].subtotal_usd, ventas[i].subtotal_bs)
            /\ Rel(ventas[i].impuesto_usd, ventas[i].impuesto_bs)
            /\ Rel(ventas[i].total_usd, ventas[i].total_bs)
            /\ \A k \in DOMAIN ventas[i].detalles :
                    /\ Rel(ventas[i].detalles[k].precio_unitario_usd,
                           ventas[i].detalles[k].precio_unitario_bs)
                    /\ Rel(ventas[i].detalles[k].total_usd, ventas[i].detalles[k].total_bs)

TodosExactos == TodosLosBs(Exacto)
TodosRedondeados == TodosLosBs(Redondeado)

\* The step is a bulk recompute that found a current rate
RecalculoHecho == ultimaOp'.op = "actualizar_precios" /\ ultimaOp'.res = "ok"

\* C15 as stated. After a bulk recompute with rate r every Bs amount of the
\* catalogue, the reservations, the sales and their lines is exactly its USD
\* counterpart times r, and every USD amount is what it was before.
C15_RecalculoExacto ==
    [][RecalculoHecho => CamposUsd' = CamposUsd /\ TodosExactos']_vars

\* C15 amended. After a bulk recompute with rate r every Bs amount of the
\* catalogue (inactive items included), the reservations, the sales and their
\* lines is its USD counterpart times r rounded to two decimals, and every
\* USD amount is what it was before.
C15_Recalculo ==
    [][RecalculoHecho => CamposUsd' = CamposUsd /\ TodosRedondeados']_vars

\* A recompute with the second rate has run over a reservation and a sale
\* with lines, and the reservation's Bs price is a rounded product.
C15_Witness ==
    /\ ultimaOp.op = "actualizar_precios" /\ ultimaOp.res = "ok" /\ ultimaOp.id = 2
    /\ TasaVigente.tasa_bs_por_usd = 4005
    /\ 1 \in DOMAIN reservaciones /\ 1 \in DOMAIN ventas
    /\ Len(ventas[1].detalles) = 2
    /\ ~Exacto(reservaciones[1].precio_por_noche_usd, reservaciones[1].precio_por_noche_bs)
    /\ Redondeado(reservaciones[1].precio_por_noche_usd, reservaciones[1].precio_por_noche_bs)

\* C16. Bulk recompute is idempotent: a recompute run right after a recompute
\* with the same current rate, nothing in between, changes no Bs amount.
C16_Idempotente ==
    [][RecalculoHecho /\ ultimaOp'.seguida => CamposBs' = CamposBs]_vars

\* A second recompute in a row has run over a reservation and a sale
C16_Witness ==
    /\ ultimaOp.op = "actualizar_precios" /\ ultimaOp.res = "ok" /\ ultimaOp.seguida
    /\ 1 \in DOMAIN reservaciones /\ 1 \in DOMAIN ventas

\* C17. Registering a rate changes no Bs and no USD amount of any catalogue
\* item, reservation, sale or sale line; the Bs amount of a record on file
\* changes only in a bulk recompute or in an edit of that record.
C17_NuncaAutomatico ==
    [][/\ ultimaOp'.op = "crear_tasa" => CamposBs' = CamposBs /\ CamposUsd' = CamposUsd
       /\ ultimaOp'.op # "actualizar_precios" =>
            /\ \A t \in DOMAIN tipos :
                    tipos'[t].precio_por_noche_bs # tipos[t].precio_por_noche_bs
                        => ultimaOp'.op = "editar_tipo" /\ ultimaOp'.id = t
            /\ \A i \in DOMAIN planes :
                    planes'[i].precio_bs # planes[i].precio_bs
                        => ultimaOp'.op = "editar_plan" /\ ultimaOp'.id = i
            /\ \A i \in DOMAIN productos :
                    productos'[i].precio_unitario_bs # productos[i].precio_unitario_bs
                        => ultimaOp'.op = "editar_producto" /\ ultimaOp'.id = i
            /\ \A i \in DOMAIN reservaciones \cap DOMAIN reservaciones' :
                    reservaciones'[i].precio_por_noche_bs # reservaciones[i].precio_por_noche_bs
                        => ultimaOp'.op = "editar" /\ ultimaOp'.id = i
            /\ \A i \in DOMAIN ventas \cap DOMAIN ventas' :
                    CamposBs'[5][i] # CamposBs[5][i]
                        => ultimaOp'.op = "editar_venta" /\ ultimaOp'.id = i]_vars

\* A second rate has just been registered and is the current one, while the
\* reservation and the sale on file still carry the Bs amounts of the first.
C17_Witness ==
    /\ ultimaOp.op = "crear_tasa" /\ ultimaOp.res = "ok"
    /\ TasaVigente.tasa_bs_por_usd = 4005
    /\ 1 \in DOMAIN reservaciones /\ 1 \in DOMAIN ventas
    /\ reservaciones[1].precio_por_noche_bs
            = PrecioBs(reservaciones[1].precio_por_noche_usd, TasaInicial.tasa_bs_por_usd)
    /\ reservaciones[1].precio_por_noche_bs
            # PrecioBs(reservaciones[1].precio_por_noche_usd, TasaVigente.tasa_bs_por_usd)
    /\ ventas[1].total_bs # PrecioBs(ventas[1].total_usd, TasaVigente.tasa_bs_por_usd)

-----------------------------------------------------------------------------
(* Properties of sale lines *)

\* The USD price the catalogue has for the item a line references
PrecioDeCatalogo(d) ==
    IF d.plan_turistico_id # SinId THEN planes[d.plan_turistico_id].precio_usd
    ELSE productos[d.producto_restaurante_id].precio_unitario_usd

\* The last request created or edited a sale through the composer or the JSON route
VentaEscrita(ops) == ultimaOp.op \in ops /\ ultimaOp.res = "ok"

LineasDeCatalogo(ops) ==
    VentaEscrita(ops) =>
        \A k \in DOMAIN ventas[ultimaOp.id].detalles :
            LET d == ventas[ultimaOp.id].detalles[k]
            IN  /\ d.precio_unitario_usd = PrecioDeCatalogo(d)
                /\ d.total_usd = d.precio_unitario_usd * d.cantidad

\* C21. Every sale line persisted by a sale-creating or sale-editing request
\* (form composer and JSON route alike) has unit_price_usd = the catalogue USD
\* price of the item it references at that moment, and
\* line_total_usd = unit_price_usd * quantity.
C21_PrecioDeCatalogo == LineasDeCatalogo({"crear_venta", "editar_venta", "api_crear_venta"})

\* Every line on file references a product or a plan, not both and not neither
UnoSolo(tabla) ==
    \A i \in DOMAIN tabla : \A k \in DOMAIN tabla[i].detalles :
        LET d == tabla[i].detalles[k]
        IN  (d.producto_restaurante_id # SinId) # (d.plan_turistico_id # SinId)

\* C22. In every state every persisted sale line references exactly one of
\* restaurant product and tourism plan, and a request that would persist a
\* line breaking this is rejected whole: sales and lines stay as they were.
C22_ExactamenteUno ==
    [][/\ UnoSolo(ventas')
       /\ ultimaOp'.res = "check" => ventas' = ventas /\ nextVentaId' = nextVentaId]_vars

\* A line naming both a product and a plan, or neither, has just been
\* refused by a /ventas-detalle route while a sale with two lines is on file.
C22_Witness ==
    /\ ultimaOp.res = "check"
    /\ ultimaOp.op \in {"crear_venta_detalle", "editar_venta_detalle"}
    /\ 1 \in DOMAIN ventas
    /\ Len(ventas[1].detalles) = 2
    /\ UnoSolo(ventas)

\* C23. Every persisted sale line has quantity >= 1 in every state, whatever
\* route wrote it (composer, JSON route, line create or edit).
C23_CantidadPositiva ==
    \A i \in DOMAIN ventas : \A k \in DOMAIN ventas[i].detalles :
        ventas[i].detalles[k].cantidad >= 1

\* The last form left no line after filtering
SinLineas == LineasEsperadas(Len(pedido.item_tipo), TRUE) = <<>>

\* C24. A sale create or edit whose kept line set is empty (no items sent,
\* or all filtered out) is rejected, and sales and lines are exactly what
\* they were before the request.
C24_SinLineasRechazada ==
    [][/\ ultimaOp'.op \in {"crear_venta", "editar_venta"} /\ SinLineas'
            => ultimaOp'.res = "sin_items"
       /\ ultimaOp'.op \in {"crear_venta", "editar_venta", "api_crear_venta"}
          /\ ultimaOp'.res = "sin_items"
            => ventas' = ventas /\ nextVentaId' = nextVentaId]_vars

\* An edit whose only request was filtered out has just been refused, and
\* the sale it named still has its two lines.
C24_Witness ==
    /\ ultimaOp.op = "editar_venta" /\ ultimaOp.res = "sin_items"
    /\ pedido.item_tipo = <<"habitacion">>
    /\ 1 \in DOMAIN ventas
    /\ Len(ventas[1].detalles) = 2

\* C30. In every state each persisted sale has total_usd = subtotal_usd +
\* tax_usd and subtotal_usd = the sum of total_usd over the lines it owns.
C30_TotalesDeLineas ==
    \A i \in DOMAIN ventas :
        /\ ventas[i].total_usd = ventas[i].subtotal_usd + ventas[i].impuesto_usd
        /\ ventas[i].subtotal_usd = SumaTotalUsd(ventas[i].detalles)

-----------------------------------------------------------------------------
(* Properties of the routes that need a rate *)

\* The requests that write a price
OpsConPrecio ==
    {"crear_tipo", "editar_tipo", "crear_plan", "editar_plan", "crear_producto", "editar_producto",
     "api_crear", "crear", "editar", "api_crear_venta", "crear_venta", "editar_venta",
     "crear_venta_detalle", "editar_venta_detalle", "actualizar_precios"}

HayTasaActiva == \E t \in tasas : t.activo

\* C25. While the ledger has no active rate, every request that writes a
\* price (create or edit of a reservation, sale, sale line or catalogue item,
\* and the bulk recompute) fails for want of a rate and leaves catalogue,
\* reservations, sales and lines unchanged.
C25_SinTasaFalla ==
    [][~HayTasaActiva /\ ultimaOp'.op \in OpsConPrecio
            => /\ ultimaOp'.res = "sin_tasa"
               /\ UNCHANGED <<tipos, planes, productos, reservaciones, ventas>>]_vars

\* The bulk recompute has just been refused for want of a rate, with a stay
\* and a sale on file.
C25_Witness ==
    /\ ~HayTasaActiva
    /\ ultimaOp.op = "actualizar_precios" /\ ultimaOp.res = "sin_tasa"
    /\ 1 \in DOMAIN reservaciones /\ 1 \in DOMAIN ventas

\* C26. A reservation create or edit that fails at any step (dates,
\* availability, room lookup, room-type price, rate) persists nothing: the
\* reservations are what they were before the request, and no field of a
\* record was assigned before the validation that failed.
C26_FalloSinEfecto ==
    [][ultimaOp'.op \in {"api_crear", "crear", "editar"} /\ ultimaOp'.res # "ok"
            => /\ reservaciones' = reservaciones
               /\ nextResId' = nextResId
               /\ ~ultimaOp'.mutada]_vars

-----------------------------------------------------------------------------
(* Properties of the catalogue between recomputes *)

\* Every catalogue item's Bs price is its stored USD price times the current
\* rate, rounded to the two decimals the column keeps
CatalogoAlDia ==
    /\ HayTasaActiva
    /\ \A t \in DOMAIN tipos : Redondeado(tipos[t].precio_por_noche_usd, tipos[t].precio_por_noche_bs)
    /\ \A i \in DOMAIN planes : Redondeado(planes[i].precio_usd, planes[i].precio_bs)
    /\ \A i \in DOMAIN productos :
            Redondeado(productos[i].precio_unitario_usd, productos[i].precio_unitario_bs)

OpsDeTasa == {"crear_tasa", "editar_tasa", "eliminar_tasa"}

\* C27. A completed bulk recompute leaves every catalogue item's Bs price at
\* its USD price times the current rate, and from then on every request that
\* is not a change of the rate ledger keeps it so: catalogue Bs prices can
\* disagree with USD times the current rate only after a rate change.
C27_CatalogoAlDia ==
    [][/\ RecalculoHecho => CatalogoAlDia'
       /\ CatalogoAlDia /\ ultimaOp'.op \notin OpsDeTasa => CatalogoAlDia']_vars

-----------------------------------------------------------------------------
(* Properties of the bulk recompute as a transaction *)

\* The Bs amounts of a sale and of its lines
BsDeVenta(venta) ==
    <<venta.subtotal_bs, venta.impuesto_bs, venta.total_bs,
      [k \in DOMAIN venta.detalles |->
            <<venta.detalles[k].precio_unitario_bs, venta.detalles[k].total_bs>>]>>

\* The step changes a Bs amount of a row that was on file before it
CambiaAlgunBs ==
    \/ \E t \in DOMAIN tipos \cap DOMAIN tipos' :
            tipos'[t].precio_por_noche_bs # tipos[t].precio_por_noche_bs
    \/ \E i \in DOMAIN planes \cap DOMAIN planes' : planes'[i].precio_bs # planes[i].precio_bs
    \/ \E i \in DOMAIN productos \cap DOMAIN productos' :
            productos'[i].precio_unitario_bs # productos[i].precio_unitario_bs
    \/ \E i \in DOMAIN reservaciones \cap DOMAIN reservaciones' :
            reservaciones'[i].precio_por_noche_bs # reservaciones[i].precio_por_noche_bs
    \/ \E i \in DOMAIN ventas \cap DOMAIN ventas' : BsDeVenta(ventas'[i]) # BsDeVenta(ventas[i])

\* The step is the commit of worker w's recompute
CommitDeRecalculo(w) ==
    /\ peticiones[w].pc = "recalculando" /\ peticiones'[w].pc = "libre"
    /\ ultimaOp'.op = "actualizar_precios" /\ ultimaOp'.res = "ok"

\* The step ends worker w's recompute before its commit
RecalculoInterrumpido(w) ==
    /\ peticiones[w].pc = "recalculando" /\ peticiones'[w].pc = "libre"
    /\ ultimaOp'.op = "actualizar_precios" /\ ultimaOp'.res = "interrumpida"

\* After the step every row worker w's request loaded, in every table, has
\* each Bs amount at its USD amount times the one rate the request read
LoteEntero(w) ==
    LET s == peticiones[w]
        r == s.tasa_bs_por_usd
    IN  /\ \A t \in DOMAIN s.tipos :
                tipos'[t].precio_por_noche_bs = PrecioBs(tipos'[t].precio_por_noche_usd, r)
        /\ \A i \in DOMAIN s.planes : planes'[i].precio_bs = PrecioBs(planes'[i].precio_usd, r)
        /\ \A i \in DOMAIN s.productos :
                productos'[i].precio_unitario_bs = PrecioBs(productos'[i].precio_unitario_usd, r)
        /\ \A i \in DOMAIN s.reservaciones :
                reservaciones'[i].precio_por_noche_bs =
                    PrecioBs(reservaciones'[i].precio_por_noche_usd, r)
        /\ \A i \in DOMAIN s.ventas :
                /\ ventas'[i].subtotal_bs = PrecioBs(ventas'[i].subtotal_usd, r)
                /\ ventas'[i].impuesto_bs = PrecioBs(ventas'[i].impuesto_usd, r)
                /\ ventas'[i].total_bs = PrecioBs(ventas'[i].total_usd, r)
                /\ \A k \in DOMAIN s.ventas[i].detalles :
                        /\ ventas'[i].detalles[k].precio_unitario_bs =
                                PrecioBs(ventas'[i].detalles[k].precio_unitario_usd, r)
                        /\ ventas'[i].detalles[k].total_bs =
                                PrecioBs(ventas'[i].detalles[k].total_usd, r)

\* C28. The bulk recompute is all-or-nothing: the only step of a recompute
\* that changes a Bs amount on file is its commit, the commit leaves every
\* row the request loaded (catalogue, reservations, sales and lines) at the
\* one rate it read, none at the previous values, and a recompute that ends
\* before its commit changes no table.
C28_LoteEntero ==
    [][/\ CambiaAlgunBs => \E w \in Workers : CommitDeRecalculo(w)
       /\ \A w \in Workers : CommitDeRecalculo(w) => LoteEntero(w)
       /\ \A w \in Workers : RecalculoInterrumpido(w)
            => UNCHANGED <<tipos, planes, productos, reservaciones, ventas>>]_vars

\* A recompute has committed at the rate registered after the first one, with
\* a stay and a sale on file: catalogue, stay and sale are all at that rate.
C28_Witness ==
    /\ ultimaOp.op = "actualizar_precios" /\ ultimaOp.res = "ok" /\ ultimaOp.id = 2
    /\ 1 \in DOMAIN reservaciones /\ 1 \in DOMAIN ventas
    /\ tipos[1].precio_por_noche_bs = PrecioBs(tipos[1].precio_por_noche_usd, 4005)
    /\ tipos[1].precio_por_noche_bs # TiposIniciales[1].precio_por_noche_bs
    /\ reservaciones[1].precio_por_noche_bs = PrecioBs(reservaciones[1].precio_por_noche_usd, 4005)
    /\ ventas[1].total_bs = PrecioBs(ventas[1].total_usd, 4005)
    /\ Len(ventas[1].detalles) = 2

-----------------------------------------------------------------------------
(* Properties of the rate a request uses *)

\* amount_bs is amount_usd times rate r, rounded to two decimals
RedondeadoCon(amount_usd, amount_bs, r) ==
    /\ 2 * (amount_bs * 100 - amount_usd * r) <= 100
    /\ 2 * (amount_usd * r - amount_bs * 100) < 100

\* Every Bs amount of the sale and of its lines is its USD amount times r
VentaConUnaTasa(venta, r) ==
    /\ RedondeadoCon(venta.subtotal_usd, venta.subtotal_bs, r)
    /\ RedondeadoCon(venta.impuesto_usd, venta.impuesto_bs, r)
    /\ RedondeadoCon(venta.total_usd, venta.total_bs, r)
    /\ \A k \in DOMAIN venta.detalles :
            /\ RedondeadoCon(venta.detalles[k].precio_unitario_usd,
                             venta.detalles[k].precio_unitario_bs, r)
            /\ RedondeadoCon(venta.detalles[k].total_usd, venta.detalles[k].total_bs, r)

\* The rate values registered so far
TasasRegistradas == {t.tasa_bs_por_usd : t \in tasas}

\* C29. Every sale and every reservation written while rates are being
\* registered has all its Bs amounts at one single rate value: for each sale
\* there is one registered rate r such that subtotal_bs, impuesto_bs, total_bs
\* and each line's unit price and total in Bs are their USD counterparts times
\* r (to the two decimals stored), and likewise each reservation's price.
C29_UnaSolaTasa ==
    /\ \A i \in DOMAIN ventas : \E r \in TasasRegistradas : VentaConUnaTasa(ventas[i], r)
    /\ \A i \in DOMAIN reservaciones : \E r \in TasasRegistradas :
            RedondeadoCon(reservaciones[i].precio_por_noche_usd,
                          reservaciones[i].precio_por_noche_bs, r)

====
